---------------------------- MODULE Spec2Model ----------------------------
(***************************************************************************)
(* Verifiable-credential wallet of aries-framework-go (package wallet):    *)
(* profile store, session registry, content store and the facade           *)
(* operations of Wallet, as a state machine.                               *)
(***************************************************************************)
EXTENDS Integers, Sequences, FiniteSets, TLC

(***************************************************************************)
(* Bounds of the model.                                                    *)
(***************************************************************************)
\* number of tokens the registry hands out in one run
MaxTokens == 2
\* last instant of the clock
MaxTime == 2
\* number of generated content ids in one run
MaxUUID == 1
\* number of entries the content store holds at most
MaxEntries == 2
\* the most channels registered for message events at a time
MaxEvents == 3
\* messages handed to Handle in one run
MaxMessages == 2
\* callbacks of action events the consumer invokes
MaxCallbacks == 2

\* time to live of a session token, in clock ticks
DefaultTTL == 1

(***************************************************************************)
(* Values.                                                                 *)
(***************************************************************************)
Users == {"alice", "bob"}

\* error kinds; OK stands for a nil error
OK == "ok"

\* kmsOpts: the three KMS binding parameters, "" when not set
kmsOpts(p, s, k) == [passphrase |-> p, secretLockSvc |-> s, keyServerURL |-> k]

KmsOptions ==
    { kmsOpts("p1", "", ""), kmsOpts("p2", "", ""),
      kmsOpts("", "", "url"), kmsOpts("", "", "") }

NoProfile == [none |-> "profile"]
NoSession == [none |-> "session"]
NoBlob == [none |-> "blob"]

\* tokens are opaque strings; the n-th token the registry hands out
TokenOf(n) == "tok-" \o ToString(n)
\* a token nobody was ever given
ForgedToken == "forged"

ContentTypes ==
    {"Credential", "DIDResolutionResponse", "Connection", "Metadata",
     "Collection", "Key"}


\* supported proof types (wallet.go constants)
Ed25519Signature2018 == "Ed25519Signature2018"
JSONWebSignature2020 == "JsonWebSignature2020"
BbsBlsSignature2020 == "BbsBlsSignature2020"
bbsContext == "https://w3id.org/security/bbs/v1"
baseContext == "https://www.w3.org/2018/credentials/v1"

\* signature representations; "" is a nil *SignatureRepresentation
SignatureJWS == "JWS"
SignatureProofValue == "ProofValue"
defaultSignatureRepresentation == SignatureJWS

\* verification relationships and their proof purpose strings
Authentication == "Authentication"
AssertionMethod == "AssertionMethod"
supportedRelationships == [Authentication |-> "authentication", AssertionMethod |-> "assertionMethod"]

(***************************************************************************)
(* Errors.  A Go error is a chain built by fmt.Errorf("...: %w", err); it  *)
(* is modelled as the sequence of its links, outermost first, and a nil    *)
(* error as the empty chain.  A link is either the context a caller adds   *)
(* or the kind of the failure.                                             *)
(***************************************************************************)
Nil == << >>
Err(kind) == <<kind>>
Wrap(context, err) == <<context>> \o err
\* errors.Is
Is(err, kind) == \E i \in DOMAIN err : err[i] = kind
Failed(err) == err # Nil

(***************************************************************************)
(* Documents.  A blob is the byte string the caller hands over.  json is   *)
(* what the bytes denote, form tells apart byte strings that denote the    *)
(* same JSON value (white space, member order); form 0 is the canonical    *)
(* one.                                                                    *)
(***************************************************************************)
NoDoc == [none |-> "doc"]
NoProof == [none |-> "proof"]

\* a DID document, reduced to its verification relationships (the ids of
\* the verification methods of each, in document order) and to the public
\* key each verification method publishes; a public key is named after the
\* private key it pairs with
DIDDoc(did, assertion, authn, keys) ==
    [id |-> did, AssertionMethod |-> assertion, Authentication |-> authn, keys |-> keys]

DocA ==
    DIDDoc("did:a", <<"did:a#k1", "did:a#k2">>, <<"did:a#k2">>,
           ("did:a#k1" :> "key-a1") @@ ("did:a#k2" :> "key-a2"))
\* a document for did:a that differs from the one the external VDR gives
DocA2 ==
    DIDDoc("did:a", <<"did:a#k3">>, <<"did:a#k3">>, ("did:a#k3" :> "key-b3"))
DocB ==
    DIDDoc("did:b", << >>, <<"did:b#k1">>, ("did:b#k1" :> "key-b1"))

\* the private keys a user's KMS holds, by key id
KmsKeys ==
    [alice |-> ("k1" :> "key-a1") @@ ("k2" :> "key-a2"),
     bob |-> ("k1" :> "key-b1") @@ ("k3" :> "key-b3")]

\* kind: "vc" a credential, "vp" a presentation, "didres" a DID resolution
\* response, "json" any other JSON object, "junk" not JSON at all
Json(kind, id, type, doc, context, proofs, creds, holder) ==
    [kind |-> kind, id |-> id, type |-> type, doc |-> doc, context |-> context,
     proofs |-> proofs, creds |-> creds, holder |-> holder]

VC(id, type, context, proofs) == Json("vc", id, type, NoDoc, context, proofs, << >>, "")
VP(context, creds, holder, proofs) ==
    Json("vp", "", "VerifiablePresentation", NoDoc, context, proofs, creds, holder)
DIDRes(doc) == Json("didres", "", "", doc, << >>, << >>, << >>, "")
Other(id) == Json("json", id, "", NoDoc, << >>, << >>, << >>, "")
Junk == Json("junk", "", "", NoDoc, << >>, << >>, << >>, "")

Blob(form, json) == [form |-> form, json |-> json]

\* the byte string a canonicalising store would keep
Canonical(blob) == [blob EXCEPT !.form = 0]


(***************************************************************************)
(* State.                                                                  *)
(***************************************************************************)
VARIABLES
    profiles,   \* profile store: "profile:<userID>" -> profile record
    contents,   \* content store: "content:<userID>:<type>:<id>" -> blob
    sessions,   \* session registry, process wide: userID -> session entry
    now,        \* the clock the expiry of a token is compared with
    nextToken,  \* number of the next token of the registry
    nextUUID,   \* number of the next generated content id
    last,       \* the last call made and what it returned
    prev,       \* history: whether the call before the last was a Remove, and of what
    reads,      \* history: what the reading calls returned before the last Open or Close
    closed,     \* history: the tokens whose session a Close has removed
    entries,    \* history: the entries saved and not removed since
    inflight,   \* the Issue, Prove or Verify in flight: where it is and what it holds
    registry,   \* the threads calling the session registry and its mutex
    service     \* DID exchange service: its channels, store, callbacks and goroutines

walletVars == <<profiles, contents, sessions, now, nextToken, nextUUID>>
vars == <<profiles, contents, sessions, now, nextToken, nextUUID, last, prev, reads, closed,
          entries, inflight, registry, service>>

\* the record of a call: operation, wallet user, inputs, error, result
Call(op, user, in, err, out) ==
    [op |-> op, user |-> user, in |-> in, err |-> err, out |-> out]
NoOut == [none |-> "out"]
NoReads == [none |-> "reads"]

\* the record of a Remove, which returns no error; existed is history:
\* whether the entry was there when the call was made
Removed(userID, contentType, contentID, existed) ==
    [op |-> "Remove", user |-> userID, in |-> [type |-> contentType, id |-> contentID],
     err |-> Nil, out |-> NoOut, existed |-> existed]

\* what prev keeps of a call
PrevOf(call) ==
    IF call.op = "Remove"
    THEN [op |-> "Remove", user |-> call.user, in |-> call.in, existed |-> call.existed]
    ELSE [op |-> "other"]

\* the frame of an Issue, a Prove or a Verify in flight: the step it is at,
\* what it holds for its next steps, and, as history, what its reads of the
\* content store and of the session registry returned.  The three calls
\* write nothing that is shared, so what one of them reads does not depend
\* on another of them being under way: one frame is kept, and the calls
\* that do write (Add, Remove, Open, Close, the clock) run between its
\* steps
Frame(pc, op, userID, in) ==
    [pc |-> pc, op |-> op, user |-> userID, in |-> in, work |-> NoOut, saw |-> << >>]
IdleCall == Frame("idle", "", "", NoOut)

\* the call returns: it becomes the last call
Returns(call) ==
    /\ last' = call
    /\ prev' = PrevOf(last)
    /\ reads' = NoReads
    /\ UNCHANGED <<inflight, registry, service>>

(***************************************************************************)
(* Profile store (4.1).  Persistence key profile:<userID>.                 *)
(***************************************************************************)
ProfileKey(userID) == "profile:" \o userID

\* number of KMS binding variants that are set
VariantsSet(opts) ==
    Cardinality({f \in {"passphrase", "secretLockSvc", "keyServerURL"} : opts[f] # ""})

\* profile.setKMSOptions: the binding must be complete, exactly one variant
setKMSOptions(profile, opts) ==
    IF VariantsSet(opts) = 1
    THEN [err |-> Nil,
          profile |-> [User |-> profile.User, passphrase |-> opts.passphrase,
                       secretLockSvc |-> opts.secretLockSvc,
                       keyServerURL |-> opts.keyServerURL]]
    ELSE [err |-> Err("InvalidBinding"), profile |-> NoProfile]

\* createProfile: a new profile value for the user, nothing stored yet
createProfile(userID, opts) ==
    setKMSOptions([User |-> userID], opts)

\* profileStore.get
profileGet(userID) ==
    IF ProfileKey(userID) \in DOMAIN profiles
    THEN [err |-> Nil, profile |-> profiles[ProfileKey(userID)]]
    ELSE [err |-> Err("NotFound"), profile |-> NoProfile]

\* profileStore.save(profile, override): the error and the store after it
profileSave(profile, override) ==
    LET key == ProfileKey(profile.User) IN
    IF ~override /\ key \in DOMAIN profiles
    THEN [err |-> Err("AlreadyExists"), profiles |-> profiles]
    ELSE IF override /\ key \notin DOMAIN profiles
    THEN [err |-> Err("NotFound"), profiles |-> profiles]
    ELSE [err |-> Nil, profiles |-> (key :> profile) @@ profiles]

\* New(userID, ctx) returns a Wallet only for a user whose profile is stored
WalletExists(userID) == ~Failed(profileGet(userID).err)

\* createOrUpdate: what it returns and the profile store after it
createOrUpdateResult(userID, update, opts) ==
    LET got == profileGet(userID)
        prepared ==
            IF update
            THEN IF Failed(got.err)
                 THEN [err |-> Wrap("failed to update wallet user profile", got.err),
                       profile |-> NoProfile]
                 ELSE LET set == setKMSOptions(got.profile, opts) IN
                      IF Failed(set.err)
                      THEN [err |-> Wrap("failed to update wallet user profile KMS options", set.err),
                            profile |-> NoProfile]
                      ELSE set
            ELSE LET created == createProfile(userID, opts) IN
                 IF Failed(created.err)
                 THEN [err |-> Wrap("failed to create new  wallet user profile", created.err),
                       profile |-> NoProfile]
                 ELSE created
    IN  IF Failed(prepared.err)
        THEN [err |-> prepared.err, profiles |-> profiles]
        ELSE LET saved == profileSave(prepared.profile, update) IN
             IF Failed(saved.err)
             THEN [err |-> Wrap("failed to save VC wallet profile", saved.err),
                   profiles |-> profiles]
             ELSE [err |-> Nil, profiles |-> saved.profiles]

createOrUpdate(op, userID, update, opts) ==
    LET r == createOrUpdateResult(userID, update, opts) IN
    /\ profiles' = r.profiles
    /\ Returns(Call(op, userID, opts, r.err, NoOut))
    /\ UNCHANGED <<contents, sessions, now, nextToken, nextUUID, closed, entries>>


\* CreateProfile that updates the profile when the user has one
CreateProfileUpserts(userID, opts) ==
    createOrUpdate("CreateProfile", userID, WalletExists(userID), opts)

CreateProfile(userID, opts) ==
    createOrUpdate("CreateProfile", userID, FALSE, opts)


\* UpdateProfile that creates, as its comment says
UpdateProfileCreates(userID, opts) ==
    createOrUpdate("UpdateProfile", userID, FALSE, opts)

UpdateProfile(userID, opts) ==
    createOrUpdate("UpdateProfile", userID, TRUE, opts)

(***************************************************************************)
(* Session registry (4.3): userID -> (kms handle, token, expiry).  The     *)
(* expiry is an absolute time, looked at when the entry is next used.      *)
(***************************************************************************)

\* an entry that is there, its expiry never looked at
LiveForever(userID) == sessions[userID] # NoSession

\* an entry that is there and has not expired
Live(userID) ==
    /\ sessions[userID] # NoSession
    /\ now < sessions[userID].expiry

Unlocked(userID) == WalletExists(userID) /\ Live(userID)
Locked(userID) == WalletExists(userID) /\ ~Live(userID)
Profileless(userID) == ~WalletExists(userID)

\* createKeyManager: a fresh token, whatever entry the user had is replaced
createKeyManager(profile, opts) ==
    [err |-> Nil,
     token |-> TokenOf(nextToken),
     sessions |-> [sessions EXCEPT ![profile.User] =
                      [token |-> TokenOf(nextToken), expiry |-> now + DefaultTTL]]]

\* removeKeyManager: true iff an entry was there (not expired) and is removed
removeKeyManager(userID) ==
    [removed |-> Live(userID),
     sessions |-> [sessions EXCEPT ![userID] = NoSession]]

\* the users a token unlocks: the lookup is by token
TokenUsers(token) == {u \in Users : Live(u) /\ sessions[u].token = token}
TokenValid(token) == TokenUsers(token) # {}

NoSigner == [none |-> "signer"]

\* newKMSSigner / resolveSigner: a signer of the session the token belongs
\* to, bound to the key the verification method names
newKMSSigner(authToken, opts) ==
    IF TokenValid(authToken)
    THEN [err |-> Nil,
          signer |-> [kms |-> CHOOSE u \in TokenUsers(authToken) : TRUE,
                      key |-> opts.VerificationMethod]]
    ELSE [err |-> Err("InvalidAuthToken"), signer |-> NoSigner]


(***************************************************************************)
(* Content store (4.2).  Persistence key                                   *)
(* content:<userID>:<contentType>:<contentID>, blobs kept verbatim.        *)
(***************************************************************************)
ContentKeyPrefix(userID, contentType) ==
    "content:" \o userID \o ":" \o contentType \o ":"

ContentKey(userID, contentType, contentID) ==
    ContentKeyPrefix(userID, contentType) \o contentID

HasPrefix(str, prefix) ==
    /\ Len(str) >= Len(prefix)
    /\ SubSeq(str, 1, Len(prefix)) = prefix

TrimPrefix(str, prefix) == SubSeq(str, Len(prefix) + 1, Len(str))

\* the next generated unique id
UUID == "uuid-" \o ToString(nextUUID)

\* content id of a blob by the rules of its type; generated tells whether
\* the id is a generated one
getContentID(contentType, content) ==
    LET json == content.json IN
    IF json.kind = "junk"
    THEN [err |-> Err("InvalidContent"), id |-> "", generated |-> FALSE]
    ELSE IF contentType = "Credential"
    THEN IF json.id = ""
         THEN [err |-> Err("InvalidContent"), id |-> "", generated |-> FALSE]
         ELSE [err |-> Nil, id |-> json.id, generated |-> FALSE]
    ELSE IF contentType = "DIDResolutionResponse"
    THEN IF json.doc = NoDoc \/ json.doc.id = ""
         THEN [err |-> Err("InvalidContent"), id |-> "", generated |-> FALSE]
         ELSE [err |-> Nil, id |-> json.doc.id, generated |-> FALSE]
    ELSE IF json.id # ""
    THEN [err |-> Nil, id |-> json.id, generated |-> FALSE]
    ELSE [err |-> Nil, id |-> UUID, generated |-> TRUE]

\* the bytes Save writes for a blob: the blob as it is
storedBytes(content) == content

\* Save that does not look at the token
contentsSaveUnchecked(userID, authToken, contentType, content) ==
    LET cid == getContentID(contentType, content)
        key == ContentKey(userID, contentType, cid.id)
        fail(e) == [err |-> e, contents |-> contents, id |-> "", generated |-> FALSE]
    IN  IF Failed(cid.err)
        THEN fail(cid.err)
        ELSE IF key \in DOMAIN contents
        THEN fail(Wrap("Duplicate", Err("AlreadyExists")))
        ELSE [err |-> Nil,
              contents |-> (key :> storedBytes(content)) @@ contents,
              id |-> cid.id, generated |-> cid.generated]

\* Save that writes over the entry its key has
contentsSaveOverwrites(userID, authToken, contentType, content) ==
    LET cid == getContentID(contentType, content)
        key == ContentKey(userID, contentType, cid.id)
        fail(e) == [err |-> e, contents |-> contents, id |-> "", generated |-> FALSE]
    IN  IF ~TokenValid(authToken)
        THEN fail(Wrap("Unauthorized", Err("InvalidAuthToken")))
        ELSE IF Failed(cid.err)
        THEN fail(cid.err)
        ELSE [err |-> Nil,
              contents |-> (key :> storedBytes(content)) @@ contents,
              id |-> cid.id, generated |-> cid.generated]

\* contentStore.Save: the error, the store after it, the key written and
\* whether a generated id was used up
contentsSave(userID, authToken, contentType, content) ==
    LET cid == getContentID(contentType, content)
        key == ContentKey(userID, contentType, cid.id)
        fail(e) == [err |-> e, contents |-> contents, id |-> "", generated |-> FALSE]
    IN  IF ~TokenValid(authToken)
        THEN fail(Wrap("Unauthorized", Err("InvalidAuthToken")))
        ELSE IF Failed(cid.err)
        THEN fail(cid.err)
        ELSE IF key \in DOMAIN contents
        THEN fail(Wrap("Duplicate", Err("AlreadyExists")))
        ELSE [err |-> Nil,
              contents |-> (key :> storedBytes(content)) @@ contents,
              id |-> cid.id, generated |-> cid.generated]

\* contentStore.Get
contentsGet(userID, contentType, contentID) ==
    LET key == ContentKey(userID, contentType, contentID) IN
    IF key \in DOMAIN contents
    THEN [err |-> Nil, blob |-> contents[key]]
    ELSE [err |-> Err("NotFound"), blob |-> NoBlob]

\* contentStore.Remove: the store without the entry
contentsRemove(userID, contentType, contentID) ==
    LET key == ContentKey(userID, contentType, contentID) IN
    [k \in DOMAIN contents \ {key} |-> contents[k]]

\* contentStore.GetAll: contentID -> blob, a scan by key prefix
contentsGetAll(userID, contentType) ==
    LET prefix == ContentKeyPrefix(userID, contentType)
        keys == {k \in DOMAIN contents : HasPrefix(k, prefix)}
    IN  [id \in {TrimPrefix(k, prefix) : k \in keys} |-> contents[prefix \o id]]


\* history of a Save: the entry the call was given, once it is stored
Entry(userID, contentType, contentID, content) ==
    [user |-> userID, type |-> contentType, id |-> contentID, blob |-> content]
savedEntries(userID, contentType, content, r) ==
    IF Failed(r.err) THEN entries
    ELSE entries \cup {Entry(userID, contentType, r.id, content)}
\* history of a Remove: the entries of that user, type and id are gone
keptEntries(userID, contentType, contentID) ==
    {e \in entries : ~(e.user = userID /\ e.type = contentType /\ e.id = contentID)}

\* Add over a store that gives a generated id to content of any type that
\* has no id
AddGenerates(userID, authToken, contentType, content) ==
    LET saved == contentsSave(userID, authToken, contentType, content)
        r == IF Is(saved.err, "InvalidContent") /\ content.json.kind # "junk"
             THEN [err |-> Nil,
                   contents |-> (ContentKey(userID, contentType, UUID) :> content) @@ contents,
                   id |-> UUID, generated |-> TRUE]
             ELSE saved
    IN
    /\ WalletExists(userID)
    /\ Failed(r.err) \/ Cardinality(DOMAIN contents) < MaxEntries
    /\ r.generated => nextUUID <= MaxUUID
    /\ contents' = r.contents
    /\ entries' = savedEntries(userID, contentType, content, r)
    /\ nextUUID' = IF r.generated THEN nextUUID + 1 ELSE nextUUID
    /\ Returns(Call("Add", userID,
                    [token |-> authToken, type |-> contentType, content |-> content],
                    r.err, r.id))
    /\ UNCHANGED <<profiles, sessions, now, nextToken, closed>>

\* Add over a store that does not look at the token
AddUnchecked(userID, authToken, contentType, content) ==
    LET r == contentsSaveUnchecked(userID, authToken, contentType, content) IN
    /\ WalletExists(userID)
    /\ Failed(r.err) \/ Cardinality(DOMAIN contents) < MaxEntries
    /\ r.generated => nextUUID <= MaxUUID
    /\ contents' = r.contents
    /\ entries' = savedEntries(userID, contentType, content, r)
    /\ nextUUID' = IF r.generated THEN nextUUID + 1 ELSE nextUUID
    /\ Returns(Call("Add", userID,
                    [token |-> authToken, type |-> contentType, content |-> content],
                    r.err, r.id))
    /\ UNCHANGED <<profiles, sessions, now, nextToken, closed>>

\* Add over a store that writes over the entry the key has
AddOverwrites(userID, authToken, contentType, content) ==
    LET r == contentsSaveOverwrites(userID, authToken, contentType, content) IN
    /\ WalletExists(userID)
    /\ Failed(r.err) \/ Cardinality(DOMAIN contents) < MaxEntries
    /\ r.generated => nextUUID <= MaxUUID
    /\ contents' = r.contents
    /\ entries' = savedEntries(userID, contentType, content, r)
    /\ nextUUID' = IF r.generated THEN nextUUID + 1 ELSE nextUUID
    /\ Returns(Call("Add", userID,
                    [token |-> authToken, type |-> contentType, content |-> content],
                    r.err, r.id))
    /\ UNCHANGED <<profiles, sessions, now, nextToken, closed>>

\* Add that hands the store the canonical form of the blob
AddCanonical(userID, authToken, contentType, content) ==
    LET r == contentsSave(userID, authToken, contentType, Canonical(content)) IN
    /\ WalletExists(userID)
    /\ Failed(r.err) \/ Cardinality(DOMAIN contents) < MaxEntries
    /\ r.generated => nextUUID <= MaxUUID
    /\ contents' = r.contents
    /\ entries' = savedEntries(userID, contentType, content, r)
    /\ nextUUID' = IF r.generated THEN nextUUID + 1 ELSE nextUUID
    /\ Returns(Call("Add", userID,
                    [token |-> authToken, type |-> contentType, content |-> content],
                    r.err, r.id))
    /\ UNCHANGED <<profiles, sessions, now, nextToken, closed>>

Add(userID, authToken, contentType, content) ==
    LET r == contentsSave(userID, authToken, contentType, content) IN
    /\ WalletExists(userID)
    /\ Failed(r.err) \/ Cardinality(DOMAIN contents) < MaxEntries
    /\ r.generated => nextUUID <= MaxUUID
    /\ contents' = r.contents
    /\ entries' = savedEntries(userID, contentType, content, r)
    /\ nextUUID' = IF r.generated THEN nextUUID + 1 ELSE nextUUID
    /\ Returns(Call("Add", userID,
                    [token |-> authToken, type |-> contentType, content |-> content],
                    r.err, r.id))
    /\ UNCHANGED <<profiles, sessions, now, nextToken, closed>>


\* Remove that reports an entry it does not find
RemoveStrict(userID, contentType, contentID) ==
    LET found == contentsGet(userID, contentType, contentID) IN
    /\ WalletExists(userID)
    /\ contents' = contentsRemove(userID, contentType, contentID)
    /\ entries' = keptEntries(userID, contentType, contentID)
    /\ Returns([Removed(userID, contentType, contentID, ~Failed(found.err))
                   EXCEPT !.err = found.err])
    /\ UNCHANGED <<profiles, sessions, now, nextToken, nextUUID, closed>>

\* Remove that leaves the store as it is
RemoveKeeps(userID, contentType, contentID) ==
    /\ WalletExists(userID)
    /\ contents' = contents
    /\ entries' = keptEntries(userID, contentType, contentID)
    /\ Returns(Removed(userID, contentType, contentID,
                        ~Failed(contentsGet(userID, contentType, contentID).err)))
    /\ UNCHANGED <<profiles, sessions, now, nextToken, nextUUID, closed>>

Remove(userID, contentType, contentID) ==
    /\ WalletExists(userID)
    /\ contents' = contentsRemove(userID, contentType, contentID)
    /\ entries' = keptEntries(userID, contentType, contentID)
    /\ Returns(Removed(userID, contentType, contentID,
                        ~Failed(contentsGet(userID, contentType, contentID).err)))
    /\ UNCHANGED <<profiles, sessions, now, nextToken, nextUUID, closed>>

Get(userID, contentType, contentID) ==
    LET r == contentsGet(userID, contentType, contentID) IN
    /\ WalletExists(userID)
    /\ Returns(Call("Get", userID, [type |-> contentType, id |-> contentID], r.err, r.blob))
    /\ UNCHANGED <<walletVars, closed, entries>>

\* GetAll that scans the entries of the user without regard to their type
GetAllTypes(userID, contentType) ==
    LET prefix == "content:" \o userID \o ":"
        keys == {k \in DOMAIN contents : HasPrefix(k, prefix)}
    IN
    /\ WalletExists(userID)
    /\ Returns(Call("GetAll", userID, [type |-> contentType], Nil,
                    [id \in {TrimPrefix(k, prefix) : k \in keys} |-> contents[prefix \o id]]))
    /\ UNCHANGED <<walletVars, closed, entries>>

GetAll(userID, contentType) ==
    /\ WalletExists(userID)
    /\ Returns(Call("GetAll", userID, [type |-> contentType], Nil,
                    contentsGetAll(userID, contentType)))
    /\ UNCHANGED <<walletVars, closed, entries>>


(***************************************************************************)
(* Content backed VDR (4.4): a stored DID resolution response first, the   *)
(* external VDR otherwise.                                                 *)
(***************************************************************************)
\* the external VDR resolves did:a only
ExternalVDR(did) ==
    IF did = "did:a"
    THEN [err |-> Nil, doc |-> DocA]
    ELSE [err |-> Err("DIDNotResolvable"), doc |-> NoDoc]

\* walletVDR.Resolve
Resolve(userID, did) ==
    LET stored == contentsGet(userID, "DIDResolutionResponse", did) IN
    IF ~Failed(stored.err) /\ stored.blob.json.doc # NoDoc
    THEN [err |-> Nil, doc |-> stored.blob.json.doc]
    ELSE ExternalVDR(did)

\* the part of a verification method id before / after the '#'
HashAt(vm) == {i \in 1..Len(vm) : SubSeq(vm, i, i) = "#"}
DIDOf(vm) ==
    IF HashAt(vm) = {} THEN vm
    ELSE SubSeq(vm, 1, (CHOOSE i \in HashAt(vm) : \A j \in HashAt(vm) : i <= j) - 1)
KeyIDOf(vm) ==
    IF HashAt(vm) = {} THEN vm
    ELSE SubSeq(vm, (CHOOSE i \in HashAt(vm) : \A j \in HashAt(vm) : i <= j) + 1, Len(vm))

\* a key fetcher that serves the wallet of a live session only
PublicKeyFetcherUnlockedOnly(userID, vm) ==
    LET res == Resolve(userID, DIDOf(vm)) IN
    IF ~Live(userID)
    THEN [err |-> Err("InvalidAuthToken"), key |-> ""]
    ELSE IF Failed(res.err)
    THEN [err |-> res.err, key |-> ""]
    ELSE IF vm \in DOMAIN res.doc.keys
    THEN [err |-> Nil, key |-> res.doc.keys[vm]]
    ELSE [err |-> Err("KeyNotFound"), key |-> ""]

\* public key fetcher of the wallet VDR: (did, keyID) -> public key
PublicKeyFetcher(userID, vm) ==
    LET res == Resolve(userID, DIDOf(vm)) IN
    IF Failed(res.err)
    THEN [err |-> res.err, key |-> ""]
    ELSE IF vm \in DOMAIN res.doc.keys
    THEN [err |-> Nil, key |-> res.doc.keys[vm]]
    ELSE [err |-> Err("KeyNotFound"), key |-> ""]

(***************************************************************************)
(* Proof engine (4.5).                                                     *)
(***************************************************************************)
NilOptions == [none |-> "options"]

ProofOptions(controller, vm, proofType, representation) ==
    [Controller |-> controller, VerificationMethod |-> vm, ProofType |-> proofType,
     ProofRepresentation |-> representation, Created |-> "", Domain |-> "",
     Challenge |-> ""]

\* what a linked data proof signs: the document without its proofs
Digest(json) == [json EXCEPT !.proofs = << >>]

\* verifiable.ParseCredential with the proof check disabled: a blob that
\* holds a credential parses to that credential. Every credential handed to
\* it names each entry of its @context once; what the parser makes of a
\* repeated entry is not modelled.
ParseCredential(raw) ==
    IF raw.json.kind = "vc"
    THEN [err |-> Nil, vc |-> raw.json]
    ELSE [err |-> Err("ParseError"), vc |-> Junk]

\* validateVerificationMethod that takes a given verification method as it
\* is
validateVerificationMethodAny(didDoc, opts, relationship) ==
    LET vms == didDoc[relationship] IN
    IF opts.VerificationMethod # ""
    THEN [err |-> Nil, opts |-> opts]
    ELSE IF Len(vms) = 0
    THEN [err |-> Err("VerificationMethodMismatch"), opts |-> opts]
    ELSE [err |-> Nil, opts |-> [opts EXCEPT !.VerificationMethod = vms[1]]]

\* validateVerificationMethod: the error and the options as the call leaves
\* them (the verification method is filled in when none was given)
validateVerificationMethod(didDoc, opts, relationship) ==
    LET vms == didDoc[relationship] IN
    IF Len(vms) = 0
    THEN [err |-> Err("VerificationMethodMismatch"), opts |-> opts]
    ELSE IF opts.VerificationMethod = ""
    THEN [err |-> Nil, opts |-> [opts EXCEPT !.VerificationMethod = vms[1]]]
    ELSE IF \E i \in 1..Len(vms) : vms[i] = opts.VerificationMethod
    THEN [err |-> Nil, opts |-> opts]
    ELSE [err |-> Err("VerificationMethodMismatch"), opts |-> opts]

\* validateProofOption that resolves the controller with the external VDR
\* and not with the VDR of the wallet
validateProofOptionExternal(userID, opts, method) ==
    IF opts = NilOptions \/ opts.Controller = ""
    THEN [err |-> Err("InvalidProofOption"), opts |-> opts]
    ELSE LET resolved == ExternalVDR(opts.Controller) IN
         IF Failed(resolved.err)
         THEN [err |-> resolved.err, opts |-> opts]
         ELSE LET checked == validateVerificationMethod(resolved.doc, opts, method) IN
              IF Failed(checked.err)
              THEN [err |-> checked.err, opts |-> checked.opts]
              ELSE LET o1 == checked.opts
                       o2 == IF o1.ProofRepresentation = ""
                             THEN [o1 EXCEPT !.ProofRepresentation = defaultSignatureRepresentation]
                             ELSE o1
                       o3 == IF o2.ProofType = ""
                             THEN [o2 EXCEPT !.ProofType = Ed25519Signature2018]
                             ELSE o2
                   IN  [err |-> Nil, opts |-> o3]

\* validateProofOption with other defaults: JsonWebSignature2020 in the
\* proof value representation
validateProofOptionOtherDefaults(userID, opts, method) ==
    IF opts = NilOptions \/ opts.Controller = ""
    THEN [err |-> Err("InvalidProofOption"), opts |-> opts]
    ELSE LET resolved == Resolve(userID, opts.Controller) IN
         IF Failed(resolved.err)
         THEN [err |-> resolved.err, opts |-> opts]
         ELSE LET checked == validateVerificationMethod(resolved.doc, opts, method) IN
              IF Failed(checked.err)
              THEN [err |-> checked.err, opts |-> checked.opts]
              ELSE LET o1 == checked.opts
                       o2 == IF o1.ProofRepresentation = ""
                             THEN [o1 EXCEPT !.ProofRepresentation = SignatureProofValue]
                             ELSE o1
                       o3 == IF o2.ProofType = ""
                             THEN [o2 EXCEPT !.ProofType = JSONWebSignature2020]
                             ELSE o2
                   IN  [err |-> Nil, opts |-> o3]

\* validateProofOption: the error and the options with the defaults applied
validateProofOption(userID, opts, method) ==
    IF opts = NilOptions \/ opts.Controller = ""
    THEN [err |-> Err("InvalidProofOption"), opts |-> opts]
    ELSE LET resolved == Resolve(userID, opts.Controller) IN
         IF Failed(resolved.err)
         THEN [err |-> resolved.err, opts |-> opts]
         ELSE LET checked == validateVerificationMethod(resolved.doc, opts, method) IN
              IF Failed(checked.err)
              THEN [err |-> checked.err, opts |-> checked.opts]
              ELSE LET o1 == checked.opts
                       o2 == IF o1.ProofRepresentation = ""
                             THEN [o1 EXCEPT !.ProofRepresentation = defaultSignatureRepresentation]
                             ELSE o1
                       o3 == IF o2.ProofType = ""
                             THEN [o2 EXCEPT !.ProofType = Ed25519Signature2018]
                             ELSE o2
                   IN  [err |-> Nil, opts |-> o3]

\* addContext that appends without looking for the context first
addContextAlways(v, context) ==
    IF v.kind = "vc"
    THEN [v EXCEPT !.context = Append(v.context, context)]
    ELSE v

\* addContext: appended to a credential that does not have it; any other
\* data model is left alone
addContext(v, context) ==
    IF v.kind = "vc"
    THEN IF \E i \in 1..Len(v.context) : v.context[i] = context
         THEN v
         ELSE [v EXCEPT !.context = Append(v.context, context)]
    ELSE v

\* provable.AddLinkedDataProof: the signer signs the document, the proof is
\* appended; fails when the KMS of the session has no key of that id
AddLinkedDataProof(p, signingCtx, signer) ==
    IF KeyIDOf(signer.key) \in DOMAIN KmsKeys[signer.kms]
    THEN [err |-> Nil,
          p |-> [p EXCEPT !.proofs = Append(p.proofs,
                    [type |-> signingCtx.SignatureType,
                     proofPurpose |-> signingCtx.Purpose,
                     verificationMethod |-> signingCtx.VerificationMethod,
                     representation |-> signingCtx.SignatureRepresentation,
                     created |-> signingCtx.Created,
                     domain |-> signingCtx.Domain,
                     challenge |-> signingCtx.Challenge,
                     signedWith |-> KmsKeys[signer.kms][KeyIDOf(signer.key)],
                     signedOver |-> Digest(p)])]]
    ELSE [err |-> Err("ProofFailed"), p |-> p]


\* addLinkedDataProof that signs whatever the proof type is
addLinkedDataProofAnyType(authToken, p, opts, relationship) ==
    LET s == newKMSSigner(authToken, opts) IN
    IF Failed(s.err)
    THEN [err |-> s.err, p |-> p]
    ELSE LET target == IF opts.ProofType = BbsBlsSignature2020
                       THEN addContext(p, bbsContext)
                       ELSE p
             signingCtx ==
                 [VerificationMethod |-> opts.VerificationMethod,
                  SignatureRepresentation |-> opts.ProofRepresentation,
                  SignatureType |-> opts.ProofType,
                  Created |-> opts.Created,
                  Domain |-> opts.Domain,
                  Challenge |-> opts.Challenge,
                  Purpose |-> supportedRelationships[relationship]]
             signed == AddLinkedDataProof(target, signingCtx, s.signer)
         IN  IF Failed(signed.err)
             THEN [err |-> Wrap("failed to add linked data proof", signed.err), p |-> target]
             ELSE [err |-> Nil, p |-> signed.p]

\* addLinkedDataProof with the error of newKMSSigner left unchecked
addLinkedDataProofUnchecked(authToken, p, opts, relationship) ==
    LET s == newKMSSigner(authToken, opts)
        signer == IF Failed(s.err)
                  THEN [kms |-> "alice", key |-> opts.VerificationMethod]
                  ELSE s.signer
    IN  IF opts.ProofType \notin {Ed25519Signature2018, JSONWebSignature2020, BbsBlsSignature2020}
        THEN [err |-> Err("UnsupportedSignatureType"), p |-> p]
        ELSE LET signingCtx ==
                     [VerificationMethod |-> opts.VerificationMethod,
                      SignatureRepresentation |-> opts.ProofRepresentation,
                      SignatureType |-> opts.ProofType,
                      Created |-> opts.Created,
                      Domain |-> opts.Domain,
                      Challenge |-> opts.Challenge,
                      Purpose |-> supportedRelationships[relationship]]
                 signed == AddLinkedDataProof(p, signingCtx, signer)
             IN  IF Failed(signed.err)
                 THEN [err |-> Wrap("failed to add linked data proof", signed.err), p |-> p]
                 ELSE [err |-> Nil, p |-> signed.p]

\* addLinkedDataProof that looks at the proof type before it asks for the
\* signer
addLinkedDataProofTypeFirst(authToken, p, opts, relationship) ==
    IF opts.ProofType \notin {Ed25519Signature2018, JSONWebSignature2020, BbsBlsSignature2020}
    THEN [err |-> Err("UnsupportedSignatureType"), p |-> p]
    ELSE addLinkedDataProofAnyType(authToken, p, opts, relationship)

\* addLinkedDataProof: the error and the document as the call leaves it
addLinkedDataProof(authToken, p, opts, relationship) ==
    LET s == newKMSSigner(authToken, opts) IN
    IF Failed(s.err)
    THEN [err |-> s.err, p |-> p]
    ELSE IF opts.ProofType \notin {Ed25519Signature2018, JSONWebSignature2020, BbsBlsSignature2020}
    THEN [err |-> Err("UnsupportedSignatureType"), p |-> p]
    ELSE LET target == IF opts.ProofType = BbsBlsSignature2020
                       THEN addContext(p, bbsContext)
                       ELSE p
             signingCtx ==
                 [VerificationMethod |-> opts.VerificationMethod,
                  SignatureRepresentation |-> opts.ProofRepresentation,
                  SignatureType |-> opts.ProofType,
                  Created |-> opts.Created,
                  Domain |-> opts.Domain,
                  Challenge |-> opts.Challenge,
                  Purpose |-> supportedRelationships[relationship]]
             signed == AddLinkedDataProof(target, signingCtx, s.signer)
         IN  IF Failed(signed.err)
             THEN [err |-> Wrap("failed to add linked data proof", signed.err), p |-> target]
             ELSE [err |-> Nil, p |-> signed.p]

(***************************************************************************)
(* Calls in flight.  Issue, Prove and Verify hold no lock from one read of *)
(* the content store or of the session registry to the next: each read is  *)
(* a step of its own, and the calls of the other threads run in between.   *)
(* A step gives the frame the call goes on with, or the call it returns.   *)
(***************************************************************************)
Continues(frame, pc, work) ==
    [done |-> FALSE, frame |-> [frame EXCEPT !.pc = pc, !.work = work]]
Finishes(frame, err, out) ==
    [done |-> TRUE,
     call |-> [op |-> frame.op, user |-> frame.user, in |-> frame.in, err |-> err,
               out |-> out, saw |-> frame.saw]]
\* history: the frame after a read that returned got
Sees(frame, read, of, got) ==
    [frame EXCEPT !.saw = Append(@, [read |-> read, of |-> of, got |-> got])]

\* the call in flight returns
WalletReturns(call) ==
    /\ last' = call
    /\ prev' = PrevOf(last)
    /\ reads' = NoReads
    /\ inflight' = IdleCall
    /\ UNCHANGED <<walletVars, closed, entries, registry, service>>
\* the call in flight goes on
WalletGoesOn(frame) ==
    /\ inflight' = frame
    /\ UNCHANGED <<walletVars, last, prev, reads, closed, entries, registry, service>>
WalletStep(r) == IF r.done THEN WalletReturns(r.call) ELSE WalletGoesOn(r.frame)

\* Wallet.Issue, ParseCredential (323): nothing shared is read
issueParse(frame) ==
    LET parsed == ParseCredential(frame.in.credential) IN
    IF Failed(parsed.err)
    THEN Finishes(frame, Wrap("failed to parse credential", parsed.err), NoOut)
    ELSE Continues(frame, "Validate", [p |-> parsed.vc, opts |-> frame.in.options])

\* Wallet.Issue, validateProofOption (330): walletVDR.Resolve reads the
\* content store
issueValidate(frame) ==
    LET opts == frame.work.opts
        valid == validateProofOption(frame.user, opts, AssertionMethod)
        seen == IF opts = NilOptions \/ opts.Controller = ""
                THEN frame
                ELSE Sees(frame, "Resolve", opts.Controller,
                          Resolve(frame.user, opts.Controller))
    IN  IF Failed(valid.err)
        THEN Finishes(seen, Wrap("failed to prepare proof", valid.err), NoOut)
        ELSE Continues(seen, "Sign", [p |-> frame.work.p, opts |-> valid.opts])

\* Wallet.Issue, addLinkedDataProof (335): newKMSSigner reads the session
\* registry
issueSign(frame) ==
    LET proved == addLinkedDataProof(frame.in.token, frame.work.p, frame.work.opts,
                                     AssertionMethod)
        seen == Sees(frame, "Signer", frame.in.token,
                     newKMSSigner(frame.in.token, frame.work.opts))
    IN  IF Failed(proved.err)
        THEN Finishes(seen, Wrap("failed to issue credential", proved.err), NoOut)
        ELSE Finishes(seen, Nil, proved.p)

\* Wallet.Issue is called and runs up to its first read, the one of
\* validateProofOption
Issue(userID, authToken, credential, options) ==
    LET parsed == issueParse(Frame("Parse", "Issue", userID,
                                   [token |-> authToken, credential |-> credential,
                                    options |-> options]))
    IN
    /\ inflight = IdleCall
    /\ WalletExists(userID)
    /\ WalletStep(IF parsed.done THEN parsed ELSE issueValidate(parsed.frame))

\* the last step of Issue with the signed credential kept in the content
\* store
IssueSignSaves ==
    LET r == issueSign(inflight)
        key == ContentKey(inflight.user, "Credential", r.call.out.id)
    IN
    /\ inflight.op = "Issue"
    /\ inflight.pc = "Sign"
    /\ contents' = IF Failed(r.call.err)
                   THEN contents
                   ELSE (key :> Blob(0, r.call.out)) @@ contents
    /\ last' = r.call
    /\ prev' = PrevOf(last)
    /\ reads' = NoReads
    /\ inflight' = IdleCall
    /\ UNCHANGED <<profiles, sessions, now, nextToken, nextUUID, closed, entries,
                   registry, service>>

IssueSign ==
    /\ inflight.op = "Issue"
    /\ inflight.pc = "Sign"
    /\ WalletStep(issueSign(inflight))


NoPresentation == [none |-> "presentation"]

\* the options of Prove: what is to be presented
ProveOptions(storedCredentials, rawCredentials, credentials, presentation) ==
    [storedCredentials |-> storedCredentials, rawCredentials |-> rawCredentials,
     credentials |-> credentials, presentation |-> presentation]

\* one turn of the first loop of resolveOptionsToPresent with the proof
\* check of ParseCredential left enabled
resolveStoredChecked(userID, id) ==
    LET raw == contentsGet(userID, "Credential", id) IN
    IF Failed(raw.err)
    THEN [err |-> raw.err, creds |-> << >>]
    ELSE LET credential == ParseCredential(raw.blob)
             checks(proof) ==
                 /\ ~Failed(PublicKeyFetcher(userID, proof.verificationMethod).err)
                 /\ proof.signedWith = PublicKeyFetcher(userID, proof.verificationMethod).key
                 /\ proof.signedOver = Digest(raw.blob.json)
         IN  IF Failed(credential.err)
             THEN [err |-> credential.err, creds |-> << >>]
             ELSE IF \E i \in 1..Len(raw.blob.json.proofs) : ~checks(raw.blob.json.proofs[i])
             THEN [err |-> Err("ProofFailed"), creds |-> << >>]
             ELSE [err |-> Nil, creds |-> <<credential.vc>>]

\* one turn of the first loop of resolveOptionsToPresent passing over an id
\* that is not in the store
resolveStoredSkipping(userID, id) ==
    LET raw == contentsGet(userID, "Credential", id) IN
    IF Failed(raw.err) \/ Failed(ParseCredential(raw.blob).err)
    THEN [err |-> Nil, creds |-> << >>]
    ELSE [err |-> Nil, creds |-> <<ParseCredential(raw.blob).vc>>]

\* one turn of the first loop of resolveOptionsToPresent (435-449): the
\* stored credential of an id, parsed with the proof check disabled
resolveStored(userID, id) ==
    LET raw == contentsGet(userID, "Credential", id) IN
    IF Failed(raw.err)
    THEN [err |-> raw.err, creds |-> << >>]
    ELSE LET credential == ParseCredential(raw.blob) IN
         IF Failed(credential.err)
         THEN [err |-> credential.err, creds |-> << >>]
         ELSE [err |-> Nil, creds |-> <<credential.vc>>]

\* the second loop: raw credentials, parsed with the proof check disabled
RECURSIVE resolveRaw(_)
resolveRaw(raws) ==
    IF raws = << >>
    THEN [err |-> Nil, creds |-> << >>]
    ELSE LET credential == ParseCredential(Head(raws)) IN
         IF Failed(credential.err)
         THEN [err |-> credential.err, creds |-> << >>]
         ELSE LET rest == resolveRaw(Tail(raws)) IN
              IF Failed(rest.err)
              THEN rest
              ELSE [err |-> Nil, creds |-> <<credential.vc>> \o rest.creds]

\* verifiable.NewPresentation(WithCredentials(...))
NewPresentation(creds) == VP(<<baseContext>>, creds, "", << >>)

\* resolveOptionsToPresent that puts the credentials of the request in the
\* place of the ones a given presentation holds, the parsed ones first
resolveOptionsToPresentReplacing(stored, opts) ==
    LET raw == resolveRaw(opts.rawCredentials)
        allCredentials == opts.credentials \o stored \o raw.creds
    IN IF Failed(raw.err)
       THEN [err |-> raw.err, presentation |-> NoPresentation]
       ELSE IF opts.presentation # NoPresentation
       THEN [err |-> Nil,
             presentation |-> [opts.presentation EXCEPT !.creds = allCredentials]]
       ELSE [err |-> Nil, presentation |-> NewPresentation(allCredentials)]

\* Wallet.resolveOptionsToPresent after its first loop (451-476): stored
\* are the credentials the first loop has read from the store
resolveOptionsToPresent(stored, opts) ==
    LET raw == resolveRaw(opts.rawCredentials) IN
    IF Failed(raw.err)
    THEN [err |-> raw.err, presentation |-> NoPresentation]
    ELSE LET allCredentials == stored \o raw.creds \o opts.credentials IN
         IF opts.presentation # NoPresentation
         THEN [err |-> Nil,
               presentation |-> [opts.presentation EXCEPT
                                    !.creds = opts.presentation.creds \o allCredentials]]
         ELSE [err |-> Nil, presentation |-> NewPresentation(allCredentials)]

\* Wallet.Prove, one contents.Get of the first loop of
\* resolveOptionsToPresent (436)
proveGet(frame) ==
    LET ids == frame.in.credentials.storedCredentials
        id == ids[frame.work.i]
        stored == resolveStored(frame.user, id)
        seen == Sees(frame, "Get", id, contentsGet(frame.user, "Credential", id))
    IN  IF Failed(stored.err)
        THEN Finishes(seen, Wrap("failed to resolve credentials from request", stored.err), NoOut)
        ELSE Continues(seen, IF frame.work.i = Len(ids) THEN "Validate" ELSE "Get",
                  [i |-> frame.work.i + 1, creds |-> frame.work.creds \o stored.creds])

\* Wallet.Prove, the rest of resolveOptionsToPresent and validateProofOption
\* (359): walletVDR.Resolve reads the content store
proveValidate(frame) ==
    LET resolved == resolveOptionsToPresent(frame.work.creds, frame.in.credentials)
        opts == frame.in.options
        valid == validateProofOption(frame.user, opts, Authentication)
        seen == IF opts = NilOptions \/ opts.Controller = ""
                THEN frame
                ELSE Sees(frame, "Resolve", opts.Controller,
                          Resolve(frame.user, opts.Controller))
    IN  IF Failed(resolved.err)
        THEN Finishes(frame, Wrap("failed to resolve credentials from request", resolved.err),
                  NoOut)
        ELSE IF Failed(valid.err)
        THEN Finishes(seen, Wrap("failed to prepare proof", valid.err), NoOut)
        ELSE Continues(seen, "Sign",
                  [p |-> [resolved.presentation EXCEPT !.holder = valid.opts.Controller],
                   opts |-> valid.opts])

\* Wallet.Prove, addLinkedDataProof (366): newKMSSigner reads the session
\* registry
proveSign(frame) ==
    LET proved == addLinkedDataProof(frame.in.token, frame.work.p, frame.work.opts,
                                     Authentication)
        seen == Sees(frame, "Signer", frame.in.token,
                     newKMSSigner(frame.in.token, frame.work.opts))
    IN  IF Failed(proved.err)
        THEN Finishes(seen, Wrap("failed to prove credentials", proved.err), NoOut)
        ELSE Finishes(seen, Nil, proved.p)

\* Wallet.Prove is called and runs up to its first read: the one of the
\* first stored id or, when none is asked for, of validateProofOption
Prove(userID, authToken, proofOptions, credentials) ==
    LET frame == [Frame("Begin", "Prove", userID,
                        [token |-> authToken, options |-> proofOptions,
                         credentials |-> credentials])
                     EXCEPT !.work = [i |-> 1, creds |-> << >>]]
    IN
    /\ inflight = IdleCall
    /\ WalletExists(userID)
    /\ WalletStep(IF credentials.storedCredentials = << >>
                  THEN proveValidate(frame)
                  ELSE proveGet(frame))

ProveGet ==
    /\ inflight.op = "Prove"
    /\ inflight.pc = "Get"
    /\ WalletStep(proveGet(inflight))

ProveValidate ==
    /\ inflight.op = "Prove"
    /\ inflight.pc = "Validate"
    /\ WalletStep(proveValidate(inflight))

ProveSign ==
    /\ inflight.op = "Prove"
    /\ inflight.pc = "Sign"
    /\ WalletStep(proveSign(inflight))

(***************************************************************************)
(* Verifier (4.8).                                                         *)
(***************************************************************************)
\* the check of one linked data proof of a document against the key of the
\* external VDR, which knows nothing of the DID documents the wallet holds
checkProofExternal(userID, json, proof) ==
    LET res == ExternalVDR(DIDOf(proof.verificationMethod)) IN
    IF Failed(res.err)
    THEN Wrap("ProofFailed", res.err)
    ELSE IF proof.verificationMethod \notin DOMAIN res.doc.keys
    THEN Wrap("ProofFailed", Err("KeyNotFound"))
    ELSE IF proof.signedWith = res.doc.keys[proof.verificationMethod]
            /\ proof.signedOver = Digest(json)
    THEN Nil
    ELSE Err("ProofFailed")

\* the check of one linked data proof of a document against the public key
\* the wallet VDR gives for its verification method (513-515)
checkProof(userID, json, proof) ==
    LET fetched == PublicKeyFetcher(userID, proof.verificationMethod) IN
    IF Failed(fetched.err)
    THEN Wrap("ProofFailed", fetched.err)
    ELSE IF proof.signedWith = fetched.key /\ proof.signedOver = Digest(json)
    THEN Nil
    ELSE Err("ProofFailed")

\* json.Marshal of a parsed document: its canonical bytes
Marshal(json) == Blob(0, json)

\* Wallet.verifyCredential: the document ParseCredential is handed; kind is
\* what it has to be, presented whether verifyPresentation is the caller
verifyCredential(credential, presented) ==
    [json |-> credential.json, kind |-> "vc", presented |-> presented]

\* the credentials of a presentation from the last one to the first
CredentialsBack(vp) ==
    [n \in 1..Len(vp.creds) |-> vp.creds[Len(vp.creds) + 1 - n]]

\* vp.Credentials(): the credentials of a presentation, in order
Credentials(vp) == vp.creds

\* Wallet.verifyPresentation: the documents to parse, in order: the
\* presentation, then each credential in it
verifyPresentation(presentation) ==
    <<[json |-> presentation.json, kind |-> "vp", presented |-> FALSE]>>
        \o [n \in 1..Len(Credentials(presentation.json)) |->
               verifyCredential(Marshal(Credentials(presentation.json)[n]), TRUE)]

\* the error of a document, as verifyCredential and verifyPresentation wrap
\* it
verifyErr(doc, err) ==
    IF doc.kind = "vp"
    THEN Wrap("presentation verification failed", err)
    ELSE IF doc.presented
    THEN Wrap("presentation verification failed",
              Wrap("credential verification failed", err))
    ELSE Wrap("credential verification failed", err)

\* the next proof to check from the i-th proof of the k-th document on: a
\* document that is not of its kind does not parse, one without further
\* proofs is done with
RECURSIVE nextCheck(_, _, _)
nextCheck(docs, k, i) ==
    IF k > Len(docs)
    THEN [done |-> TRUE, err |-> Nil, k |-> k, i |-> i]
    ELSE IF docs[k].json.kind # docs[k].kind
    THEN [done |-> FALSE, err |-> Err("ParseError"), k |-> k, i |-> i]
    ELSE IF i > Len(docs[k].json.proofs)
    THEN nextCheck(docs, k + 1, 1)
    ELSE [done |-> FALSE, err |-> Nil, k |-> k, i |-> i]

\* Wallet.Verify up to its next read of the content store
verifyFrom(frame, docs, k, i) ==
    LET at == nextCheck(docs, k, i) IN
    IF at.done
    THEN Finishes(frame, Nil, TRUE)
    ELSE IF Failed(at.err)
    THEN Finishes(frame, verifyErr(docs[at.k], at.err), FALSE)
    ELSE Continues(frame, "Check", [docs |-> docs, k |-> at.k, i |-> at.i])

\* Wallet.Verify, contents.Get of the credential id (387)
verifyGet(frame) ==
    LET id == frame.in.credentialID
        raw == contentsGet(frame.user, "Credential", id)
        seen == Sees(frame, "Get", id, raw)
    IN  IF Failed(raw.err)
        THEN Finishes(seen, Wrap("failed to get credential", raw.err), FALSE)
        ELSE verifyFrom(seen, <<verifyCredential(raw.blob, FALSE)>>, 1, 1)

\* Wallet.Verify, the check of one proof: the key fetcher reads the content
\* store for the DID document of the verification method (513-515)
verifyCheck(frame) ==
    LET w == frame.work
        doc == w.docs[w.k]
        proof == doc.json.proofs[w.i]
        err == checkProof(frame.user, doc.json, proof)
        seen == Sees(frame, "Key", proof.verificationMethod,
                     PublicKeyFetcher(frame.user, proof.verificationMethod))
    IN  IF Failed(err)
        THEN Finishes(seen, verifyErr(doc, err), FALSE)
        ELSE verifyFrom(seen, w.docs, w.k, w.i + 1)

\* the request of Verify: a stored credential id, a raw credential or a raw
\* presentation; "" and NoBlob when not given
VerificationOption(credentialID, rawCredential, rawPresentation) ==
    [credentialID |-> credentialID, rawCredential |-> rawCredential,
     rawPresentation |-> rawPresentation]

\* Wallet.Verify from the switch on the request (380-400) up to its first
\* read: the one of the credential id or of the key of the first proof
verifyBegin(userID, options) ==
    LET frame == Frame("Begin", "Verify", userID, options)
        raw == IF options.rawCredential # NoBlob
               THEN verifyFrom(frame, <<verifyCredential(options.rawCredential, FALSE)>>, 1, 1)
               ELSE verifyFrom(frame, verifyPresentation(options.rawPresentation), 1, 1)
    IN  IF options.credentialID # ""
        THEN verifyGet(frame)
        ELSE IF options.rawCredential = NoBlob /\ options.rawPresentation = NoBlob
        THEN Finishes(frame, Err("invalid verify request"), FALSE)
        ELSE IF raw.done
        THEN raw
        ELSE verifyCheck(raw.frame)

\* history: the call a Verify returns when no other call runs between its
\* steps
RECURSIVE verifyAlone(_)
verifyAlone(r) == IF r.done THEN r.call ELSE verifyAlone(verifyCheck(r.frame))
VerifyAlone(userID, options) == verifyAlone(verifyBegin(userID, options))

\* Wallet.Verify is called
Verify(userID, options) ==
    /\ inflight = IdleCall
    /\ WalletExists(userID)
    /\ WalletStep(verifyBegin(userID, options))

\* the check of a proof after which Verify drops from the store the
\* credential it finds wanting
VerifyCheckEvicts ==
    LET r == verifyCheck(inflight)
        id == inflight.in.credentialID
    IN
    /\ inflight.op = "Verify"
    /\ inflight.pc = "Check"
    /\ contents' = IF r.done /\ id # "" /\ ~r.call.out
                   THEN contentsRemove(inflight.user, "Credential", id)
                   ELSE contents
    /\ IF r.done
       THEN last' = r.call /\ prev' = PrevOf(last) /\ reads' = NoReads /\ inflight' = IdleCall
       ELSE inflight' = r.frame /\ UNCHANGED <<last, prev, reads>>
    /\ UNCHANGED <<profiles, sessions, now, nextToken, nextUUID, closed, entries,
                   registry, service>>

VerifyCheck ==
    /\ inflight.op = "Verify"
    /\ inflight.pc = "Check"
    /\ WalletStep(verifyCheck(inflight))

(***************************************************************************)
(* Query engine (4.6): one presentation per query, in input order.  A      *)
(* presentation is given by the set of stored credentials it holds.        *)
(***************************************************************************)
QueryDialects == {"QueryByFrame", "PresentationExchange", "QueryByExample"}

QueryParams(dialect, payload) == [Type |-> dialect, Query |-> payload]

\* the credentials a query selects: those of the type its payload names
queryMatches(param, vcContents) ==
    {vcContents[id].json : id \in {i \in DOMAIN vcContents : vcContents[i].json.type = param.Query}}

\* Query.PerformQuery over the stored credentials
PerformQuery(params, vcContents) ==
    IF \E i \in 1..Len(params) : params[i].Type \notin QueryDialects
    THEN [err |-> Err("QueryError"), presentations |-> << >>]
    ELSE IF \E id \in DOMAIN vcContents : vcContents[id].json.kind # "vc"
    THEN [err |-> Err("QueryError"), presentations |-> << >>]
    ELSE [err |-> Nil,
          presentations |-> [i \in 1..Len(params) |-> queryMatches(params[i], vcContents)]]

\* Wallet.Query that hands PerformQuery the first of its queries only
QueryResultFirstOnly(userID, params) ==
    PerformQuery(SubSeq(params, 1, 1), contentsGetAll(userID, "Credential"))

\* Wallet.Query
QueryResult(userID, params) ==
    PerformQuery(params, contentsGetAll(userID, "Credential"))

Query(userID, params) ==
    LET r == QueryResult(userID, params) IN
    /\ WalletExists(userID)
    /\ Returns(Call("Query", userID, params, r.err, r.presentations))
    /\ UNCHANGED <<walletVars, closed, entries>>


(***************************************************************************)
(* The requests the reading calls are observed with.                       *)
(***************************************************************************)
SampleVC == VC("c1", "UniversityDegreeCredential", <<baseContext>>, << >>)
OtherVC == VC("c2", "AgeCredential", <<baseContext>>, << >>)

\* SampleVC with the proof Issue adds for did:a#k1 in a session of alice
SignedVC ==
    AddLinkedDataProof(SampleVC,
        [VerificationMethod |-> "did:a#k1", SignatureRepresentation |-> SignatureJWS,
         SignatureType |-> Ed25519Signature2018, Created |-> "", Domain |-> "",
         Challenge |-> "", Purpose |-> supportedRelationships[AssertionMethod]],
        [kms |-> "alice", key |-> "did:a#k1"]).p
\* SignedVC with its type changed after it was signed
TamperedVC == [SignedVC EXCEPT !.type = "AgeCredential"]

\* the entries asked for by Get and Remove, by content type
ContentIDs ==
    {<<"Credential", "c1">>, <<"Metadata", "m1">>}
ContentQueries ==
    {<<QueryParams("QueryByExample", "UniversityDegreeCredential"),
       QueryParams("QueryByExample", "AgeCredential")>>}
ContentVerifyOptions ==
    {VerificationOption("c1", NoBlob, NoBlob),
     VerificationOption("", Blob(1, SignedVC), NoBlob)}

\* the wallet whose reading calls are observed
ContentUsers == {"alice"}

\* what the four reading calls return to the wallet for each request, a
\* Verify when no other call runs between its steps
ReadResults ==
    [u \in ContentUsers |->
        [get |-> [c \in ContentIDs |-> contentsGet(u, c[1], c[2])],
         getAll |-> [ct \in ContentTypes |-> contentsGetAll(u, ct)],
         query |-> [q \in ContentQueries |-> QueryResult(u, q)],
         verify |-> [o \in ContentVerifyOptions |->
                       LET alone == VerifyAlone(u, o) IN
                       [verified |-> alone.out, err |-> alone.err]]]]

(***************************************************************************)
(* Open, Close and the passing of time.                                    *)
(***************************************************************************)
\* an Open or a Close returns: reads keeps what the reading calls returned
\* when it was called
SessionReturns(call) ==
    /\ last' = call
    /\ prev' = PrevOf(last)
    /\ reads' = ReadResults
    /\ UNCHANGED <<inflight, registry, service>>

\* Open that hands out a token but leaves the entry the user has in place
OpenKeepsEntry(userID, opts) ==
    LET r == createKeyManager(profileGet(userID).profile, opts) IN
    /\ WalletExists(userID)
    /\ nextToken <= MaxTokens
    /\ sessions' = IF sessions[userID] # NoSession THEN sessions ELSE r.sessions
    /\ nextToken' = nextToken + 1
    /\ SessionReturns(Call("Open", userID, opts, r.err, r.token))
    /\ UNCHANGED <<profiles, contents, now, nextUUID, closed, entries>>

Open(userID, opts) ==
    LET r == createKeyManager(profileGet(userID).profile, opts) IN
    /\ WalletExists(userID)
    /\ nextToken <= MaxTokens
    /\ sessions' = r.sessions
    /\ nextToken' = nextToken + 1
    /\ SessionReturns(Call("Open", userID, opts, r.err, r.token))
    /\ UNCHANGED <<profiles, contents, now, nextUUID, closed, entries>>


\* Close that does not pass on what the registry answered
CloseReportsTrue(userID) ==
    LET r == removeKeyManager(userID) IN
    /\ WalletExists(userID)
    /\ sessions' = r.sessions
    /\ closed' = IF r.removed THEN closed \cup {sessions[userID].token} ELSE closed
    /\ SessionReturns(Call("Close", userID, NoOut, Nil, TRUE))
    /\ UNCHANGED <<profiles, contents, now, nextToken, nextUUID, entries>>

Close(userID) ==
    LET r == removeKeyManager(userID) IN
    /\ WalletExists(userID)
    /\ sessions' = r.sessions
    /\ closed' = IF r.removed THEN closed \cup {sessions[userID].token} ELSE closed
    /\ SessionReturns(Call("Close", userID, NoOut, Nil, r.removed))
    /\ UNCHANGED <<profiles, contents, now, nextToken, nextUUID, entries>>

\* time passes
Tick ==
    /\ now < MaxTime
    /\ now' = now + 1
    /\ Returns(Call("Tick", "", NoOut, Nil, NoOut))
    /\ UNCHANGED <<profiles, contents, sessions, nextToken, nextUUID, closed, entries>>


(***************************************************************************)
(* The session registry under concurrent calls (5): threads of several     *)
(* Wallet instances call createKeyManager, removeKeyManager and            *)
(* resolveSigner; each call takes the mutex of the registry, works on the  *)
(* map (sessions) and gives the mutex back as it returns.  An entry is     *)
(* written field by field.                                                 *)
(***************************************************************************)
Threads == {"t1", "t2"}

NoResult == [op |-> "none"]

\* pc, call, user, token: where each thread is, in which call, for which
\* user or token; res: what its last call returned; lock: the holder of the
\* mutex; current, removed, expect: history (the token the last
\* createKeyManager of a user returned, the tokens whose entry a
\* removeKeyManager removed, what a resolveSigner is to return by the order
\* of the calls)
RegistryInit ==
    [lock |-> "free",
     pc |-> [t \in Threads |-> "idle"],
     call |-> [t \in Threads |-> "none"],
     user |-> [t \in Threads |-> ""],
     token |-> [t \in Threads |-> ""],
     res |-> [t \in Threads |-> NoResult],
     expect |-> [t \in Threads |-> "any"],
     current |-> [u \in Users |-> ""],
     removed |-> {}]

\* an entry of the map with every field written
Complete(entry) == DOMAIN entry = {"token", "expiry"}

\* the entry with one field written
PutField(entry, field, value) ==
    [f \in (DOMAIN entry \ {"none"}) \cup {field} |-> IF f = field THEN value ELSE entry[f]]

\* another thread is in a createKeyManager or a removeKeyManager of the user
Busy(t, userID) ==
    \E o \in Threads \ {t} :
        /\ registry.pc[o] # "idle"
        /\ registry.call[o] \in {"createKeyManager", "removeKeyManager"}
        /\ registry.user[o] = userID

\* the resolveSigner calls under way lose what the order of the calls
\* promised them when a call that changes the entry of their token starts
Overtaken(userID) ==
    [t \in Threads |->
        IF /\ registry.pc[t] # "idle"
           /\ registry.call[t] = "resolveSigner"
           /\ registry.token[t] = registry.current[userID]
           /\ registry.expect[t] = "ok"
        THEN "any"
        ELSE registry.expect[t]]

\* a thread enters the registry without asking for the mutex
mutexIgnored(t) == TRUE

\* sync.Mutex: a thread enters when no thread holds the mutex
mutexFree(t) == registry.lock = "free"

registryUnchanged ==
    UNCHANGED <<profiles, contents, now, nextUUID, last, prev, reads, closed, entries, inflight,
                service>>

\* Wallet.Open calls createKeyManager: a fresh token is made
createKeyManagerCall(t, userID) ==
    /\ registry.pc[t] = "idle"
    /\ WalletExists(userID)
    /\ nextToken <= MaxTokens
    /\ nextToken' = nextToken + 1
    /\ registry' = [registry EXCEPT !.pc[t] = "wait", !.call[t] = "createKeyManager",
                                    !.user[t] = userID, !.token[t] = TokenOf(nextToken),
                                    !.res[t] = NoResult, !.expect = Overtaken(userID)]
    /\ UNCHANGED sessions
    /\ registryUnchanged

\* Wallet.Close calls removeKeyManager
removeKeyManagerCall(t, userID) ==
    /\ registry.pc[t] = "idle"
    /\ WalletExists(userID)
    /\ registry' = [registry EXCEPT !.pc[t] = "wait", !.call[t] = "removeKeyManager",
                                    !.user[t] = userID, !.token[t] = "",
                                    !.res[t] = NoResult, !.expect = Overtaken(userID)]
    /\ UNCHANGED <<sessions, nextToken>>
    /\ registryUnchanged

\* newKMSSigner calls resolveSigner with a token.  By the order of the
\* calls it is to succeed when the token is the one the last
\* createKeyManager of a user returned and no call that changes that entry
\* is under way, and to fail when a removeKeyManager has removed the entry
\* of the token
resolveSignerCall(t, authToken) ==
    /\ registry.pc[t] = "idle"
    /\ registry' = [registry EXCEPT
          !.pc[t] = "wait", !.call[t] = "resolveSigner", !.user[t] = "",
          !.token[t] = authToken, !.res[t] = NoResult,
          !.expect[t] = IF \E u \in Users : registry.current[u] = authToken /\ ~Busy(t, u)
                        THEN "ok"
                        ELSE IF authToken \in registry.removed
                        THEN "fail"
                        ELSE "any"]
    /\ UNCHANGED <<sessions, nextToken>>
    /\ registryUnchanged

\* mutex.Lock()
acquire(t) ==
    /\ registry.pc[t] = "wait"
    /\ mutexFree(t)
    /\ registry' = [registry EXCEPT !.lock = t, !.pc[t] = "locked"]
    /\ UNCHANGED <<sessions, nextToken>>
    /\ registryUnchanged

\* createKeyManager, first write: the entry of the user is replaced by one
\* that has the token
createKeyManagerPut(t) ==
    /\ registry.pc[t] = "locked"
    /\ registry.call[t] = "createKeyManager"
    /\ sessions' = [sessions EXCEPT ![registry.user[t]] = [token |-> registry.token[t]]]
    /\ registry' = [registry EXCEPT !.pc[t] = "written"]
    /\ UNCHANGED nextToken
    /\ registryUnchanged

\* createKeyManager, second write: the expiry; the mutex is given back and
\* the token returned
createKeyManagerExpiry(t) ==
    /\ registry.pc[t] = "written"
    /\ sessions' = [sessions EXCEPT ![registry.user[t]] =
                       PutField(@, "expiry", now + DefaultTTL)]
    /\ registry' = [registry EXCEPT
          !.lock = "free", !.pc[t] = "idle",
          !.res[t] = [op |-> "createKeyManager", token |-> registry.token[t]],
          !.current[registry.user[t]] = registry.token[t]]
    /\ UNCHANGED nextToken
    /\ registryUnchanged

\* removeKeyManager: the entry is deleted; true iff a live one was there
removeKeyManagerDelete(t) ==
    LET entry == sessions[registry.user[t]]
        existed == Complete(entry) /\ now < entry.expiry
    IN  /\ registry.pc[t] = "locked"
        /\ registry.call[t] = "removeKeyManager"
        /\ sessions' = [sessions EXCEPT ![registry.user[t]] = NoSession]
        /\ registry' = [registry EXCEPT
              !.lock = "free", !.pc[t] = "idle",
              !.res[t] = [op |-> "removeKeyManager", removed |-> existed],
              !.current[registry.user[t]] = "",
              !.removed = IF existed THEN @ \cup {entry.token} ELSE @]
        /\ UNCHANGED nextToken
        /\ registryUnchanged

\* resolveSigner: the entry of the token is looked up; a signer iff a live
\* entry has the token
resolveSignerGet(t) ==
    LET holds(u) == /\ "token" \in DOMAIN sessions[u]
                    /\ sessions[u].token = registry.token[t]
        found == \E u \in Users : holds(u) /\ Complete(sessions[u]) /\ now < sessions[u].expiry
        partial == \E u \in Users : sessions[u] # NoSession /\ ~Complete(sessions[u])
    IN  /\ registry.pc[t] = "locked"
        /\ registry.call[t] = "resolveSigner"
        /\ registry' = [registry EXCEPT
              !.lock = "free", !.pc[t] = "idle",
              !.res[t] = [op |-> "resolveSigner", token |-> registry.token[t],
                          ok |-> found, partial |-> partial,
                          expect |-> registry.expect[t]]]
        /\ UNCHANGED <<sessions, nextToken>>
        /\ registryUnchanged

(***************************************************************************)
(* DID exchange service: the registration of the channels its events go    *)
(* to.  actionEvent is the one channel of the action events (nil when none *)
(* is registered), msgEvents the list of the channels of the message       *)
(* events.                                                                 *)
(***************************************************************************)
\* the nil channel, and the channels of the consumers
NilChannel == "nil"
Channels == {"ch1", "ch2"}

\* service.DIDCommMsg: the type, the direction and the thread id its
\* payload carries
DIDCommMsg(type, outbound, thid) == [Type |-> type, Outbound |-> outbound, thid |-> thid]

\* what goes wrong during a call: nothing, or one step for one state, or
\* a step that is made once (threadID, currentState, Put, Get)
NoFault == [step |-> "none", state |-> ""]
Fault(step, state) == [step |-> step, state |-> state]

\* the goroutines that call Handle, and the internal listener that
\* startInternalListener starts
Callers == {"g1", "g2"}
Listener == "listener"
Goroutines == Callers \cup {Listener}

\* what a goroutine holds of the call it is in: where it is (pc), the call
\* (op, msg, fault), the locals of Handle and handle (aEvent, thid, next,
\* followup, id), what the call has sent and done so far (trace), and of
\* the sendMsgEvents under way: the event (at: Handle's PreState, handle's
\* PreState or PostState), the list as it was when the snapshot was taken
\* (snap), the elements the snapshot now reads from the array it shares
\* with msgEvents (view; shared while msgEvents still uses that array),
\* the index of the next send (i) and the channels sent to (got)
IdleFrame ==
    [pc |-> "idle", op |-> "", msg |-> DIDCommMsg("", FALSE, ""), fault |-> NoFault,
     aEvent |-> NilChannel, thid |-> "", next |-> "noop", followup |-> "noop", id |-> "",
     trace |-> << >>,
     at |-> "", snap |-> << >>, view |-> << >>, shared |-> FALSE, i |-> 1, got |-> << >>]

\* the UnregisterMsgEvent that holds msgEventLock: the channel it removes
\* (ch), the index of its loop (i), and the places of the array that the
\* append of line 972 has still to store into (stores); none when idle
NoUnregister == [pc |-> "idle", ch |-> NilChannel, i |-> 1, stores |-> {}]

\* msgEventLock is free: no UnregisterMsgEvent is between Lock and Unlock
msgEventLockFree == service.unregister.pc = "idle"

\* the service as New returns it: nothing registered, an empty store, an
\* empty callback channel, the listener waiting
ServiceInit ==
    [actionEvent |-> NilChannel, msgEvents |-> << >>, cap |-> 0,
     store |-> << >>, nextID |-> 1, messages |-> 0, callbacks |-> 0,
     actions |-> {}, callbackChannel |-> << >>, answers |-> << >>,
     unregister |-> NoUnregister,
     procs |-> [g \in Goroutines |-> IdleFrame]]

\* a call of the service returns
ServiceReturns(call) ==
    /\ last' = call
    /\ prev' = PrevOf(last)
    /\ reads' = NoReads
    /\ UNCHANGED <<walletVars, closed, entries, inflight, registry>>

\* a step of a goroutine inside a call: no call returns
sendingStep ==
    UNCHANGED <<walletVars, last, prev, reads, closed, entries, inflight, registry>>

\* RegisterActionEvent that takes the channel whatever is registered
RegisterActionEventReplaces(ch) ==
    /\ service' = [service EXCEPT !.actionEvent = ch]
    /\ ServiceReturns(Call("RegisterActionEvent", "", ch, Nil, NoOut))

\* Service.RegisterActionEvent
RegisterActionEvent(ch) ==
    IF service.actionEvent # NilChannel
    THEN /\ service' = service
         /\ ServiceReturns(Call("RegisterActionEvent", "", ch,
                                Err("channel is already registered for the action event"),
                                NoOut))
    ELSE /\ service' = [service EXCEPT !.actionEvent = ch]
         /\ ServiceReturns(Call("RegisterActionEvent", "", ch, Nil, NoOut))

\* Service.UnregisterActionEvent
UnregisterActionEvent(ch) ==
    IF service.actionEvent # ch
    THEN /\ service' = service
         /\ ServiceReturns(Call("UnregisterActionEvent", "", ch,
                                Err("invalid channel passed to unregister the action event"),
                                NoOut))
    ELSE /\ service' = [service EXCEPT !.actionEvent = NilChannel]
         /\ ServiceReturns(Call("UnregisterActionEvent", "", ch, Nil, NoOut))

\* the capacity append gives the list when its array is full
growCap(cap) == IF cap = 0 THEN 1 ELSE 2 * cap

\* what a snapshot reads after append has put ch in place n of the array
\* it shares
viewAfterAppend(frame, n, ch) ==
    IF frame.shared /\ n <= Len(frame.view)
    THEN [frame EXCEPT !.view[n] = ch]
    ELSE frame

\* Service.RegisterMsgEvent, under msgEventLock: the channel is appended,
\* registered or not; in the array of the list when it has room, else in a
\* new array, which no snapshot taken before shares
RegisterMsgEvent(ch) ==
    /\ msgEventLockFree
    /\ Len(service.msgEvents) < MaxEvents
    /\ service' =
          IF Len(service.msgEvents) < service.cap
          THEN [service EXCEPT
                   !.msgEvents = Append(@, ch),
                   !.procs = [g \in Goroutines |->
                                 viewAfterAppend(@[g], Len(service.msgEvents) + 1, ch)]]
          ELSE [service EXCEPT
                   !.msgEvents = Append(@, ch),
                   !.cap = growCap(@),
                   !.procs = [g \in Goroutines |-> [@[g] EXCEPT !.shared = FALSE]]]
    /\ ServiceReturns(Call("RegisterMsgEvent", "", ch, Nil, NoOut))

\* the loop of UnregisterMsgEvent from index i on, as far as it goes
\* without a store into the array: it passes the elements that are not the
\* channel, and cutting the last element out only shortens the list.  It
\* stops at an element that has others behind it (found) or at the end.
RECURSIVE removeChannelFrom(_, _, _)
removeChannelFrom(events, ch, i) ==
    IF i > Len(events)
    THEN [events |-> events, i |-> i, found |-> FALSE]
    ELSE IF events[i] # ch
    THEN removeChannelFrom(events, ch, i + 1)
    ELSE IF i = Len(events)
    THEN removeChannelFrom(SubSeq(events, 1, i - 1), ch, i)
    ELSE [events |-> events, i |-> i, found |-> TRUE]

\* what a snapshot that shares the array of the list reads after the
\* append of line 972 has stored element k + 1 of the list in place k
viewAfterRemove(frame, events, k) ==
    IF frame.shared /\ k <= Len(frame.view)
    THEN [frame EXCEPT !.view[k] = events[k + 1]]
    ELSE frame

\* the loop of UnregisterMsgEvent goes on from index i of the list events:
\* either it has an element to cut out by moving the ones behind it, one
\* store for each, or it is through, gives the lock back and returns
unregisterLoop(svc, ch, events, i) ==
    LET loop == removeChannelFrom(events, ch, i) IN
    IF loop.found
    THEN /\ service' = [svc EXCEPT
                !.msgEvents = loop.events,
                !.unregister = [pc |-> "copy", ch |-> ch, i |-> loop.i,
                                stores |-> loop.i..(Len(loop.events) - 1)]]
         /\ sendingStep
    ELSE /\ service' = [svc EXCEPT !.msgEvents = loop.events,
                                   !.unregister = NoUnregister]
         /\ ServiceReturns(Call("UnregisterMsgEvent", "", ch, Nil, NoOut))

\* Service.UnregisterMsgEvent, its beginning: msgEventLock is taken and the
\* loop runs up to its first store into the array
UnregisterMsgEvent(ch) ==
    /\ msgEventLockFree
    /\ unregisterLoop(service, ch, service.msgEvents, 1)

\* Service.UnregisterMsgEvent, one store of the append of line 972, which
\* moves the elements behind the one cut out one place down in the array
\* of the list: place k takes element k + 1.  The stores are not ordered
\* for the goroutines that read the array without the lock.  After the
\* last of them the list is one shorter and the loop goes on at the same
\* index.
UnregisterMsgEventCopy(k) ==
    LET call == service.unregister
        events == service.msgEvents
        stored == [service EXCEPT
                      !.procs = [g \in Goroutines |-> viewAfterRemove(@[g], events, k)],
                      !.unregister.stores = @ \ {k}]
    IN /\ call.pc = "copy"
       /\ k \in call.stores
       /\ IF call.stores = {k}
          THEN unregisterLoop(stored, call.ch,
                              SubSeq(events, 1, call.i - 1)
                                  \o SubSeq(events, call.i + 1, Len(events)),
                              call.i)
          ELSE /\ service' = stored
               /\ sendingStep

(***************************************************************************)
(* DID exchange service: the protocol.  A message is handled for a thread; *)
(* the state the thread is in is kept in the store under the thread id.    *)
(* The states themselves (their names, which state follows which, what     *)
(* executing one does) are not part of the service's file: they are taken  *)
(* here as the protocol gives them, null -> invited -> requested ->        *)
(* responded -> completed.                                                 *)
(***************************************************************************)
DIDExchangeSpec == "did:sov:BzCbsNYhMrjHiqZDTUASHg;spec/didexchange/1.0/"
ConnectionInvite == DIDExchangeSpec \o "invitation"
ConnectionRequest == DIDExchangeSpec \o "request"
ConnectionResponse == DIDExchangeSpec \o "response"
ConnectionAck == DIDExchangeSpec \o "ack"

\* the message kept for the callback
message(msg, threadID, nextStateName) ==
    [Msg |-> msg, ThreadID |-> threadID, NextStateName |-> nextStateName]

\* the state a message of a type leads to
stateFromMsgType(msgType) ==
    CASE msgType = ConnectionInvite -> [state |-> "invited", err |-> Nil]
      [] msgType = ConnectionRequest -> [state |-> "requested", err |-> Nil]
      [] msgType = ConnectionResponse -> [state |-> "responded", err |-> Nil]
      [] msgType = ConnectionAck -> [state |-> "completed", err |-> Nil]
      [] OTHER -> [state |-> "noop",
                   err |-> Err("unrecognized msgType: " \o msgType)]

\* state.CanTransitionTo
CanTransitionTo(current, next) ==
    CASE current = "null" -> next \in {"invited", "requested"}
      [] current = "invited" -> next = "requested"
      [] current = "requested" -> next = "responded"
      [] current = "responded" -> next = "completed"
      [] OTHER -> FALSE

\* state.Execute: the state that follows, and whether the message is one
\* the state can be executed for
Execute(state, msg) ==
    LET illegal == [followup |-> "noop",
                    err |-> Err("illegal msg type " \o msg.Type \o " for state " \o state)]
        outbound == [followup |-> "noop",
                     err |-> Err("outbound " \o msg.Type \o " not allowed for state " \o state)]
        stop == [followup |-> "noop", err |-> Nil]
        then(s) == [followup |-> s, err |-> Nil]
    IN CASE state = "null" -> stop
         [] state = "invited" ->
              IF msg.Type # ConnectionInvite THEN illegal
              ELSE IF msg.Outbound THEN stop ELSE then("requested")
         [] state = "requested" ->
              IF msg.Type = ConnectionInvite
              THEN IF msg.Outbound THEN outbound ELSE stop
              ELSE IF msg.Type = ConnectionRequest
              THEN IF msg.Outbound THEN stop ELSE then("responded")
              ELSE illegal
         [] state = "responded" ->
              IF msg.Type = ConnectionRequest
              THEN IF msg.Outbound THEN outbound ELSE stop
              ELSE IF msg.Type = ConnectionResponse
              THEN IF msg.Outbound THEN stop ELSE then("completed")
              ELSE illegal
         [] state = "completed" ->
              IF msg.Type = ConnectionResponse
              THEN IF msg.Outbound THEN outbound ELSE stop
              ELSE IF msg.Type = ConnectionAck THEN stop
              ELSE illegal
         [] OTHER -> illegal

isNoOp(s) == s = "noop"

\* canTriggerActionEvents
canTriggerActionEvents(msgType) ==
    ~(msgType # ConnectionRequest /\ msgType # ConnectionResponse /\ msgType # ConnectionAck)

\* the ids uuid.New gives: to the threads of inbound invitations, and
\* (generateRandomID) to the messages kept for a callback
RandomID(n) == "uuid-" \o ToString(n)
generateRandomID(n) == "id-" \o ToString(n)

\* threadID: a new id for an inbound invitation, else the one of the payload
threadID(didCommMsg) ==
    IF ~didCommMsg.Outbound /\ didCommMsg.Type = ConnectionInvite
    THEN RandomID(service.nextID)
    ELSE didCommMsg.thid

\* storage.ErrDataNotFound
ErrDataNotFound == Err("data not found")

\* connectionStore.GetConnection of the recorder that New builds over the
\* store of the service (NewConnectionRecorder(store)): the record of the
\* thread, whose State is taken to be the state name that update put under
\* the thread id, and ErrDataNotFound when the store has nothing for it
GetConnection(store, thid) ==
    IF thid \in DOMAIN store
    THEN [err |-> Nil, conn |-> [State |-> store[thid]]]
    ELSE [err |-> ErrDataNotFound, conn |-> [State |-> ""]]

\* Service.currentState: the null state when the connection store answers
\* ErrDataNotFound, else the state named by the State of the record; any
\* other error of GetConnection is the fault "currentState" of HandleCheck
currentState(store, thid) ==
    LET res == GetConnection(store, thid) IN
    IF res.err = ErrDataNotFound THEN "null" ELSE res.conn.State

\* store.Put
storePut(store, k, v) == [x \in DOMAIN store \cup {k} |-> IF x = k THEN v ELSE store[x]]

\* one entry of the trace of a call: an event sent to channels of the
\* message events (to: the channels it went to, in the order of the
\* sends), the action event handed to the consumer, or a step done for a
\* state or for the message kept
Step(step, state) == [step |-> step, state |-> state]
StateMsg(type, stateID, to) == [step |-> type, state |-> stateID, to |-> to]

\* the size of the callback channel
CallbackChannelSize == 10

\* the goroutine g goes on in its call, svc being the service as the step
\* leaves it
Goes(g, svc, frame) ==
    /\ service' = [svc EXCEPT !.procs[g] = frame]
    /\ sendingStep

\* the call of the goroutine g returns err
CallReturns(g, svc, frame, err) ==
    /\ service' = [svc EXCEPT !.procs[g] = IdleFrame]
    /\ ServiceReturns(Call(frame.op, "",
                           IF frame.op = "process"
                           THEN [ID |-> frame.id, Err |-> Nil] ELSE frame.msg,
                           err, [trace |-> frame.trace]))

\* Service.handle returns err: to Handle, which returns it as it is, or to
\* process, which wraps it
handleReturns(g, svc, frame, err) ==
    CallReturns(g, svc, frame,
            IF frame.op = "process" /\ Failed(err)
            THEN Wrap("processing of the message failed", err) ELSE err)

\* the loop of Service.handle, its condition: it ends at the no-op state,
\* else the PreState event of the state is next
handleLoop(g, svc, frame) ==
    IF isNoOp(frame.next)
    THEN handleReturns(g, svc, frame, Nil)
    ELSE Goes(g, svc, [frame EXCEPT !.pc = "snapshot", !.at = "Pre"])

\* a sendMsgEvents has returned; got are the channels the event was sent
\* to.  After the PreState event of Handle: sendActionEvent for an inbound
\* message that triggers an action event, else handle; after the PreState
\* event of handle: the state is executed; after its PostState event: the
\* follow-up state
sendMsgEventsReturns(g, svc, frame, got) ==
    LET sent == [frame EXCEPT
                    !.trace = Append(@, StateMsg(IF frame.at = "Post" THEN "PostState"
                                                 ELSE "PreState", frame.next, got)),
                    !.snap = << >>, !.view = << >>, !.shared = FALSE,
                    !.i = 1, !.got = << >>]
    IN CASE frame.at = "Handle" ->
              IF ~frame.msg.Outbound /\ canTriggerActionEvents(frame.msg.Type)
              THEN Goes(g, svc, [sent EXCEPT !.pc = "Put"])
              ELSE handleLoop(g, svc, sent)
         [] frame.at = "Pre" -> Goes(g, svc, [sent EXCEPT !.pc = "update"])
         [] OTHER -> handleLoop(g, svc, [sent EXCEPT !.next = frame.followup])

\* Service.sendMsgEvents, its first part: the list is read under the read
\* lock, which copies its header, not its array
sendMsgEventsSnapshot(g) ==
    LET frame == service.procs[g]
    IN /\ frame.pc = "snapshot"
       /\ msgEventLockFree
       /\ IF service.msgEvents = << >>
          THEN sendMsgEventsReturns(g, service, frame, << >>)
          ELSE Goes(g, service,
                    [frame EXCEPT !.pc = "send",
                                  !.snap = service.msgEvents, !.view = service.msgEvents,
                                  !.shared = TRUE, !.i = 1, !.got = << >>])

\* Service.sendMsgEvents, one turn of its loop, outside the lock: the
\* handler is read from the array and the event is sent to it
sendMsgEventsDeliver(g) ==
    LET frame == service.procs[g]
        got == Append(frame.got, frame.view[frame.i])
    IN /\ frame.pc = "send"
       /\ IF frame.i = Len(frame.view)
          THEN sendMsgEventsReturns(g, service, frame, got)
          ELSE Goes(g, service, [frame EXCEPT !.got = got, !.i = @ + 1])

\* Service.Handle, its beginning: the channel of the action events is read
\* under the lock; an inbound message is refused when there is none; the
\* thread id is taken from the message, a new one for an inbound invitation
HandleEnter(g, msg, fault) ==
    LET aEvent == service.actionEvent
        thid == threadID(msg)
        svc == [service EXCEPT !.messages = @ + 1,
                               !.nextID = IF thid = msg.thid THEN @ ELSE @ + 1]
        frame == [IdleFrame EXCEPT !.pc = "Handle", !.op = "Handle", !.msg = msg,
                                   !.fault = fault, !.aEvent = aEvent, !.thid = thid]
    IN /\ service.procs[g].pc = "idle"
       /\ service.messages < MaxMessages
       /\ IF ~msg.Outbound /\ aEvent = NilChannel
          THEN CallReturns(g, [service EXCEPT !.messages = @ + 1], frame,
                       Err("no clients are registered to handle the message"))
          ELSE IF thid = msg.thid /\ fault = Fault("threadID", "")
          THEN CallReturns(g, [service EXCEPT !.messages = @ + 1], frame,
                       Err("cannot unmarshal @id and ~thread: error=unmarshal failed"))
          ELSE Goes(g, svc, frame)

\* Handle that takes a message whatever state its thread is in
HandleCheckWithoutTransitionCheck(g) ==
    LET frame == service.procs[g]
        next == stateFromMsgType(frame.msg.Type)
    IN /\ frame.pc = "Handle"
       /\ IF Failed(next.err)
          THEN CallReturns(g, service, frame, next.err)
          ELSE Goes(g, service,
                    [frame EXCEPT !.pc = "snapshot", !.at = "Handle", !.next = next.state])

\* Service.Handle, its checks: the state of the thread is read, the state
\* the message leads to is taken from its type, and the message is refused
\* when the one cannot follow the other; the PreState event is next
HandleCheck(g) ==
    LET frame == service.procs[g]
        current == currentState(service.store, frame.thid)
        next == stateFromMsgType(frame.msg.Type)
    IN /\ frame.pc = "Handle"
       /\ IF frame.fault = Fault("currentState", "")
          THEN CallReturns(g, service, frame,
                       Err("cannot fetch state from store: thid=" \o frame.thid
                               \o " err=get failed"))
          ELSE IF Failed(next.err)
          THEN CallReturns(g, service, frame, next.err)
          ELSE IF ~CanTransitionTo(current, next.state)
          THEN CallReturns(g, service, frame,
                       Err("invalid state transition: " \o current \o " -> " \o next.state))
          ELSE Goes(g, service,
                    [frame EXCEPT !.pc = "snapshot", !.at = "Handle", !.next = next.state])

\* Service.sendActionEvent, its first part: the message is kept in the
\* store under a new id
sendActionEventPut(g) ==
    LET frame == service.procs[g]
        id == generateRandomID(service.nextID)
    IN /\ frame.pc = "Put"
       /\ IF frame.fault = Fault("Put", "")
          THEN CallReturns(g, service, frame,
                       Wrap("send events failed",
                            Wrap("JSON marshalling of document failed", Err("put failed"))))
          ELSE Goes(g,
                    [service EXCEPT
                        !.store = storePut(@, id, message(frame.msg, frame.thid, frame.next)),
                        !.nextID = @ + 1],
                    [frame EXCEPT !.pc = "aEvent", !.id = id,
                                  !.trace = Append(@, Step("Put", id))])

\* Service.sendActionEvent, its second part: the action event, with the
\* Continue and Stop of the id, is sent on the channel that Handle read at
\* its beginning, where the consumer takes it; Handle returns
sendActionEventSend(g) ==
    LET frame == service.procs[g]
    IN /\ frame.pc = "aEvent"
       /\ CallReturns(g, [service EXCEPT !.actions = @ \cup {frame.id}],
                  [frame EXCEPT
                      !.trace = Append(@, StateMsg("ActionEvent", frame.id, <<frame.aEvent>>))],
                  Nil)

\* the loop of handle that sends the PostState event of a state whether
\* its action succeeded or not
handleUpdatePostAnyway(g) ==
    LET frame == service.procs[g]
        next == frame.next
        exec == Execute(next, frame.msg)
    IN /\ frame.pc = "update"
       /\ ~Failed(exec.err)
       /\ Goes(g, [service EXCEPT !.store = storePut(@, frame.thid, next)],
               [frame EXCEPT
                   !.pc = "snapshot", !.at = "Post", !.followup = exec.followup,
                   !.trace = @ \o <<Step("Execute", next), Step("Persist", next)>>])

\* the loop of Service.handle between the two events of a state: the state
\* is executed, which gives the follow-up state; it is persisted for the
\* thread; its action is run.  The first failure ends the call.  Of the
\* three only the second reads or writes what the goroutines share
handleUpdate(g) ==
    LET frame == service.procs[g]
        next == frame.next
        exec == Execute(next, frame.msg)
        executed == [frame EXCEPT !.trace = Append(@, Step("Execute", next))]
        persisted == [executed EXCEPT !.trace = Append(@, Step("Persist", next))]
        acted == [persisted EXCEPT !.trace = Append(@, Step("Action", next))]
        stored == [service EXCEPT !.store = storePut(@, frame.thid, next)]
    IN /\ frame.pc = "update"
       /\ IF Failed(exec.err) \/ frame.fault = Fault("Execute", next)
          THEN handleReturns(g, service, frame,
                   Wrap("failed to execute state " \o next,
                        IF Failed(exec.err) THEN exec.err ELSE Err("execute failed")))
          ELSE IF frame.fault = Fault("Persist", next)
          THEN handleReturns(g, service, executed,
                   Wrap("failed to persist state " \o next,
                        Err("failed to write to store: put failed")))
          ELSE IF frame.fault = Fault("Action", next)
          THEN handleReturns(g, stored, persisted,
                   Wrap("failed to execute state action " \o next, Err("action failed")))
          ELSE Goes(g, stored,
                    [acted EXCEPT !.pc = "snapshot", !.at = "Post",
                                  !.followup = exec.followup])

\* history: the callbacks of the event of an id that were invoked so far
answersWith(answers, id, callback) ==
    storePut(answers, id, IF id \in DOMAIN answers THEN answers[id] \cup {callback}
                          ELSE {callback})

\* the consumer invokes the Continue of an action event it has taken:
\* processCallback(id, nil).  The closure stays callable
Continue(id) ==
    /\ id \in service.actions
    /\ service.callbacks < MaxCallbacks
    /\ Len(service.callbackChannel) < CallbackChannelSize
    /\ service' = [service EXCEPT
            !.callbacks = @ + 1,
            !.callbackChannel = Append(@, [ID |-> id, Err |-> Nil]),
            !.answers = answersWith(@, id, "Continue")]
    /\ ServiceReturns(Call("Continue", "", id, Nil, NoOut))

\* the consumer invokes the Stop of an action event it has taken:
\* processCallback(id, err), with the error it gives, nil or not
Stop(id, err) ==
    /\ id \in service.actions
    /\ service.callbacks < MaxCallbacks
    /\ Len(service.callbackChannel) < CallbackChannelSize
    /\ service' = [service EXCEPT
            !.callbacks = @ + 1,
            !.callbackChannel = Append(@, [ID |-> id, Err |-> err]),
            !.answers = answersWith(@, id, "Stop")]
    /\ ServiceReturns(Call("Stop", "", [ID |-> id, Err |-> err], Nil, NoOut))

\* process that goes on whatever the callback message carries
processWhateverAnswer(fault) ==
    LET msg == Head(service.callbackChannel)
        document == service.store[msg.ID]
        frame == [IdleFrame EXCEPT !.op = "process", !.id = msg.ID, !.fault = fault,
                                   !.msg = document.Msg, !.thid = document.ThreadID,
                                   !.next = document.NextStateName]
    IN /\ service.procs[Listener].pc = "idle"
       /\ service.callbackChannel # << >>
       /\ handleLoop(Listener, [service EXCEPT !.callbackChannel = Tail(@)], frame)

\* the internal listener takes the next message of the callback channel:
\* Service.process.  It returns at once when the message carries an error;
\* else it reads the message kept under the id and begins handle.  (The
\* message kept under an id is written once, before the id is given out.)
process(fault) ==
    LET msg == Head(service.callbackChannel)
        taken == [service EXCEPT !.callbackChannel = Tail(@)]
        document == service.store[msg.ID]
        frame == [IdleFrame EXCEPT !.op = "process", !.id = msg.ID, !.fault = fault]
    IN /\ service.procs[Listener].pc = "idle"
       /\ service.callbackChannel # << >>
       /\ IF Failed(msg.Err)
          THEN /\ service' = taken
               /\ ServiceReturns(Call("process", "", msg, Nil, [trace |-> << >>]))
          ELSE IF fault = Fault("Get", "")
          THEN CallReturns(Listener, taken, frame,
                       Wrap("document for the id doesn't exists in the database",
                            Err("get failed")))
          ELSE handleLoop(Listener, taken,
                          [frame EXCEPT !.msg = document.Msg, !.thid = document.ThreadID,
                                        !.next = document.NextStateName])

(***************************************************************************)
(* The did:key method: VDR.Create.                                         *)
(***************************************************************************)
schemaV1 == "https://w3id.org/did/v1"
ed25519VerificationKey2018 == "Ed25519VerificationKey2018"
x25519KeyAgreementKey2019 == "X25519KeyAgreementKey2019"
bls12381G2Key2020 == "Bls12381G2Key2020"
jsonWebKey2020 == "JsonWebKey2020"

\* the multicodec codes of the fingerprint package
ED25519PubKeyMultiCodec == 237
X25519PubKeyMultiCodec == 236
BLS12381g2PubKeyMultiCodec == 235
P256PubKeyMultiCodec == 4608
P384PubKeyMultiCodec == 4609
P521PubKeyMultiCodec == 4610

\* key material: a name for the bytes and their number
KeyBytes(name, len) == [name |-> name, len |-> len]
\* did.VerificationMethod
VerificationMethod(id, type, controller, value) ==
    [ID |-> id, Type |-> type, Controller |-> controller, Value |-> value]
\* the options of Create: the KeyType value and the EncryptionKey value
\* ("" when absent)
NoEncryptionKey == [none |-> "encryptionKey"]
DIDMethodOpts(keyType, encryptionKey) == [KeyType |-> keyType, EncryptionKey |-> encryptionKey]

\* fetchECKeyCodeFromVerMethod: the code by the length of the key, the zero
\* value for any other length
fetchECKeyCodeFromVerMethod(method) ==
    CASE method.Value.len = 64 -> P256PubKeyMultiCodec
      [] method.Value.len = 96 -> P384PubKeyMultiCodec
      [] method.Value.len = 132 -> P521PubKeyMultiCodec
      [] OTHER -> 0

\* getKeyCode
getKeyCode(keyType, verificationMethod) ==
    CASE verificationMethod.Type = ed25519VerificationKey2018 ->
            [code |-> ED25519PubKeyMultiCodec, err |-> Nil]
      [] verificationMethod.Type = bls12381G2Key2020 ->
            [code |-> BLS12381g2PubKeyMultiCodec, err |-> Nil]
      [] verificationMethod.Type = jsonWebKey2020 ->
            IF keyType = ""
            THEN [code |-> fetchECKeyCodeFromVerMethod(verificationMethod), err |-> Nil]
            ELSE CASE keyType \in {"ECDSAP256DER", "ECDSAP256IEEEP1363"} ->
                        [code |-> P256PubKeyMultiCodec, err |-> Nil]
                   [] keyType \in {"ECDSAP384DER", "ECDSAP384IEEEP1363"} ->
                        [code |-> P384PubKeyMultiCodec, err |-> Nil]
                   [] keyType \in {"ECDSAP521DER", "ECDSAP521IEEEP1363"} ->
                        [code |-> P521PubKeyMultiCodec, err |-> Nil]
                   [] OTHER -> [code |-> 0, err |-> Err("invalid jsonWebKey2020 key type")]
      [] OTHER ->
            [code |-> 0,
             err |-> Err("not supported public key type: " \o verificationMethod.Type)]

\* fingerprint.KeyFingerprint, and the did:key and key id made of it
KeyFingerprint(code, value) == "z" \o ToString(code) \o "-" \o value.name
DIDKeyOf(code, value) == "did:key:" \o KeyFingerprint(code, value)

\* keyAgreementFromEd25519: the X25519 key of an Ed25519 key, which exists
\* for a key of 32 bytes
keyAgreementFromEd25519(didKey, ed25519PubKey) ==
    IF ed25519PubKey.len # 32
    THEN [method |-> NoEncryptionKey, err |-> Err("invalid ed25519 public key")]
    ELSE LET curve == KeyBytes("x-" \o ed25519PubKey.name, 32)
         IN [method |-> VerificationMethod(
                            didKey \o "#" \o KeyFingerprint(X25519PubKeyMultiCodec, curve),
                            x25519KeyAgreementKey2019, didKey, curve),
             err |-> Nil]

\* createDoc
createDoc(pubKey, keyAgreement, didKey) ==
    [Context |-> <<schemaV1>>,
     ID |-> didKey,
     VerificationMethod |-> <<pubKey>>,
     Authentication |-> <<pubKey.ID>>,
     AssertionMethod |-> <<pubKey.ID>>,
     CapabilityDelegation |-> <<pubKey.ID>>,
     CapabilityInvocation |-> <<pubKey.ID>>,
     KeyAgreement |-> IF keyAgreement = NoEncryptionKey THEN << >> ELSE <<keyAgreement>>]

\* VDR.Create: the document for the first verification method of didDoc.
\* keyType is declared and never set from the options.
Create(didDoc, opts) ==
    LET keyType == ""
        fails(err) == [doc |-> NoOut, err |-> err]
        first == didDoc.VerificationMethod[1]
        keyCode == getKeyCode(keyType, first)
        didKey == DIDKeyOf(keyCode.code, first.Value)
        keyID == didKey \o "#" \o KeyFingerprint(keyCode.code, first.Value)
        publicKey == VerificationMethod(keyID, first.Type, didKey, first.Value)
        derived == IF first.Type = ed25519VerificationKey2018
                   THEN keyAgreementFromEd25519(didKey, first.Value)
                   ELSE [method |-> NoEncryptionKey, err |-> Nil]
        k == opts.EncryptionKey
    IN IF Len(didDoc.VerificationMethod) = 0
       THEN fails(Err("verification method is empty"))
       ELSE IF Failed(keyCode.err)
       THEN fails(keyCode.err)
       ELSE IF Failed(derived.err)
       THEN fails(derived.err)
       ELSE IF k # NoEncryptionKey /\ DOMAIN k # DOMAIN publicKey
       THEN fails(Err("encryptionKey not VerificationMethod"))
       ELSE [doc |-> createDoc(publicKey,
                               IF k # NoEncryptionKey THEN k ELSE derived.method, didKey),
             err |-> Nil]

\* a call of VDR.Create
CreateDID(didDoc, opts) ==
    LET r == Create(didDoc, opts)
    IN /\ UNCHANGED <<walletVars, closed, entries>>
       /\ Returns(Call("Create", "", [didDoc |-> didDoc, opts |-> opts], r.err, r.doc))

(***************************************************************************)
(* The client of the issue-credential protocol: the three calls that send  *)
(* a message through the protocol service.  The service is the one the     *)
(* client was made with; answer is what its HandleOutbound returns.  A     *)
(* call gives the piid, the error and the calls of HandleOutbound it made. *)
(***************************************************************************)
OfferCredentialMsgType == "https://didcomm.org/issue-credential/2.0/offer-credential"
ProposeCredentialMsgType == "https://didcomm.org/issue-credential/2.0/propose-credential"
RequestCredentialMsgType == "https://didcomm.org/issue-credential/2.0/request-credential"

NilMessage == [nil |-> "message"]
\* an OfferCredential, ProposeCredential or RequestCredential
ClientMessage(type, comment) == [Type |-> type, Comment |-> comment]
\* what HandleOutbound returns
Answer(piid, err) == [piid |-> piid, err |-> err]
HandleOutbound(msg, myDID, theirDID) == [msg |-> msg, myDID |-> myDID, theirDID |-> theirDID]
Sent(piid, err, calls) == [piid |-> piid, err |-> err, calls |-> calls]

\* SendOffer that hands a nil offer to the service
SendOfferUnchecked(offer, myDID, theirDID, answer) ==
    Sent(answer.piid, answer.err, <<HandleOutbound(offer, myDID, theirDID)>>)

\* Client.SendOffer
SendOffer(offer, myDID, theirDID, answer) ==
    IF offer = NilMessage
    THEN Sent("", Err("errEmptyOffer"), << >>)
    ELSE Sent(answer.piid, answer.err,
              <<HandleOutbound([offer EXCEPT !.Type = OfferCredentialMsgType],
                               myDID, theirDID)>>)

\* Client.SendProposal
SendProposal(proposal, myDID, theirDID, answer) ==
    IF proposal = NilMessage
    THEN Sent("", Err("errEmptyProposal"), << >>)
    ELSE Sent(answer.piid, answer.err,
              <<HandleOutbound([proposal EXCEPT !.Type = ProposeCredentialMsgType],
                               myDID, theirDID)>>)

\* Client.SendRequest
SendRequest(request, myDID, theirDID, answer) ==
    IF request = NilMessage
    THEN Sent("", Err("errEmptyRequest"), << >>)
    ELSE Sent(answer.piid, answer.err,
              <<HandleOutbound([request EXCEPT !.Type = RequestCredentialMsgType],
                               myDID, theirDID)>>)

\* a call of the client
ClientCall(op, msg, myDID, theirDID, answer) ==
    LET r == CASE op = "SendOffer" -> SendOffer(msg, myDID, theirDID, answer)
               [] op = "SendProposal" -> SendProposal(msg, myDID, theirDID, answer)
               [] op = "SendRequest" -> SendRequest(msg, myDID, theirDID, answer)
    IN /\ UNCHANGED <<walletVars, closed, entries>>
       /\ Returns(Call(op, "",
                       [msg |-> msg, myDID |-> myDID, theirDID |-> theirDID,
                        answer |-> answer],
                       r.err, [piid |-> r.piid, calls |-> r.calls]))

(***************************************************************************)
(* Inputs of the calls.                                                    *)
(***************************************************************************)
\* unlock options of Open
UnlockByPassphrase == [passphrase |-> "p1"]

\* every token handed out so far, and one that never was
TokenInputs == {ForgedToken} \cup {TokenOf(n) : n \in 1..(nextToken - 1)}

SessionKmsOptions == {kmsOpts("p1", "", "")}
SessionContentTypes == {"Credential"}
SessionBlobs == {Blob(0, SampleVC)}
SessionCredentials == {Blob(0, SampleVC)}
SessionProofOptions == {NilOptions, ProofOptions("did:a", "", "", "")}
SessionProveOptions == {ProveOptions(<< >>, << >>, <<SampleVC>>, NoPresentation)}
\* the wallet the signer-requiring calls are made on, with the token of any
\* session
SessionSigners == {"alice"}

(***************************************************************************)
(* The wallet from its construction: no profile, no content, no session.   *)
(***************************************************************************)
Init ==
    /\ profiles = << >>
    /\ contents = << >>
    /\ sessions = [u \in Users |-> NoSession]
    /\ now = 0
    /\ nextToken = 1
    /\ nextUUID = 1
    /\ last = Call("Init", "", NoOut, Nil, NoOut)
    /\ prev = [op |-> "other"]
    /\ reads = NoReads
    /\ closed = {}
    /\ entries = {}
    /\ inflight = IdleCall
    /\ registry = RegistryInit
    /\ service = ServiceInit

\* the session lifecycle: Profileless -> Locked -> Unlocked -> Locked ...
SessionNext ==
    \/ \E u \in Users, o \in SessionKmsOptions : CreateProfile(u, o)
    \/ \E u \in Users : Open(u, UnlockByPassphrase)
    \/ \E u \in Users : Close(u)
    \/ Tick
    \/ \E u \in SessionSigners, t \in TokenInputs, ct \in SessionContentTypes, b \in SessionBlobs :
          Add(u, t, ct, b)
    \/ \E u \in SessionSigners, t \in TokenInputs, c \in SessionCredentials, o \in SessionProofOptions :
          Issue(u, t, c, o)
    \/ \E u \in SessionSigners, t \in TokenInputs, c \in SessionProveOptions :
          Prove(u, t, ProofOptions("did:a", "", "", ""), c)
    \/ IssueSign
    \/ ProveSign

SpecSession == Init /\ [][SessionNext]_vars

\* profile creation and update
ProfileNext ==
    \/ \E u \in Users, o \in KmsOptions : CreateProfile(u, o)
    \/ \E u \in Users, o \in KmsOptions : UpdateProfile(u, o)
    \/ \E u \in Users : Open(u, UnlockByPassphrase)
    \/ \E u \in Users : Close(u)

SpecProfile == Init /\ [][ProfileNext]_vars

\* the content handed to Add, by content type; form 1 is a byte string
\* that is not the canonical one
ContentInputs ==
    {<<"Credential", Blob(1, SignedVC)>>,
     <<"Metadata", Blob(1, Other("m1"))>>}
\* the token of the session of the wallet's user when it has one, and a
\* forged one
ContentTokens(userID) ==
    {ForgedToken} \cup {sessions[u].token : u \in {v \in {userID} : sessions[v] # NoSession}}

\* a DID document saved for did:a that lacks the key SignedVC is signed with
ContentDocuments == {<<"DIDResolutionResponse", Blob(0, DIDRes(DocA2))>>}
ContentDocumentIDs == {<<"DIDResolutionResponse", "did:a">>}
\* the content store and the calls that read it, with sessions opening and
\* closing in between
ContentNext ==
    \/ \E u \in ContentUsers, o \in SessionKmsOptions : CreateProfile(u, o)
    \/ \E u \in ContentUsers : Open(u, UnlockByPassphrase)
    \/ \E u \in ContentUsers : Close(u)
    \/ \E u \in ContentUsers, c \in ContentInputs \cup ContentDocuments :
           \E t \in ContentTokens(u) : Add(u, t, c[1], c[2])
    \/ \E u \in ContentUsers, c \in ContentIDs \cup ContentDocumentIDs : Remove(u, c[1], c[2])
    \/ \E u \in ContentUsers, c \in ContentIDs : Get(u, c[1], c[2])
    \/ \E u \in ContentUsers : GetAll(u, "Credential")
    \/ \E u \in ContentUsers, q \in ContentQueries : Query(u, q)
    \/ \E u \in ContentUsers, o \in ContentVerifyOptions : Verify(u, o)
    \/ VerifyCheck

SpecContent == Init /\ [][ContentNext]_vars

\* a blob for every content type, none in the canonical form: the id of
\* the metadata is a generated one
StoreInputs ==
    {<<"Credential", Blob(1, SignedVC)>>,
     <<"DIDResolutionResponse", Blob(2, DIDRes(DocA2))>>,
     <<"Connection", Blob(1, Other("m1"))>>,
     <<"Metadata", Blob(1, Other(""))>>,
     <<"Collection", Blob(2, Other("m1"))>>,
     <<"Key", Blob(1, Other("k1"))>>}
\* the entries asked for by Get and Remove
StoreIDs ==
    {<<"Credential", "c1">>, <<"DIDResolutionResponse", "did:a">>,
     <<"Connection", "m1">>, <<"Metadata", "uuid-1">>, <<"Collection", "m1">>,
     <<"Key", "k1">>}
StoreUsers == {"alice"}

\* one wallet and its content store, every content type
StoreNext ==
    \/ \E u \in StoreUsers, o \in SessionKmsOptions : CreateProfile(u, o)
    \/ \E u \in StoreUsers : Open(u, UnlockByPassphrase)
    \/ \E u \in StoreUsers, c \in StoreInputs :
          \E t \in ContentTokens(u) \ {ForgedToken} : Add(u, t, c[1], c[2])
    \/ \E u \in StoreUsers, c \in StoreIDs : Remove(u, c[1], c[2])
    \/ \E u \in StoreUsers, c \in StoreIDs : Get(u, c[1], c[2])

SpecStore == Init /\ [][StoreNext]_vars

\* a credential and a DID resolution response without the id their type
\* asks for, a blob that is not JSON, and for every type a blob with an id
\* and, where the id may be left out, one without
NoIDVC == VC("", "UniversityDegreeCredential", <<baseContext>>, << >>)
NoIDDoc == DIDDoc("", <<"#k1">>, <<"#k1">>, ("#k1" :> "key-a1"))
SaveInputs ==
    {<<"Credential", Blob(1, SignedVC)>>,
     <<"Credential", Blob(2, TamperedVC)>>,
     <<"Credential", Blob(0, NoIDVC)>>,
     <<"DIDResolutionResponse", Blob(1, DIDRes(DocA2))>>,
     <<"DIDResolutionResponse", Blob(0, DIDRes(NoDoc))>>,
     <<"DIDResolutionResponse", Blob(0, DIDRes(NoIDDoc))>>,
     <<"Connection", Blob(0, Other(""))>>,
     <<"Metadata", Blob(1, Other("m1"))>>,
     <<"Metadata", Blob(0, Other(""))>>,
     <<"Collection", Blob(0, Other(""))>>,
     <<"Key", Blob(0, Junk)>>,
     <<"Key", Blob(0, Other(""))>>}
SaveIDs ==
    {<<"Credential", "c1">>, <<"Metadata", "m1">>, <<"Metadata", "uuid-1">>}

\* one wallet saving content of every type while its session is open
SaveNext ==
    \/ \E u \in StoreUsers, o \in SessionKmsOptions : CreateProfile(u, o)
    \/ \E u \in StoreUsers : Open(u, UnlockByPassphrase)
    \/ \E u \in StoreUsers, c \in SaveInputs :
          \E t \in ContentTokens(u) \ {ForgedToken} : Add(u, t, c[1], c[2])
    \/ \E u \in StoreUsers, c \in SaveIDs : Remove(u, c[1], c[2])

SpecSave == Init /\ [][SaveNext]_vars

\* one wallet saving content of every type with every token there is, its
\* sessions opening, closing and expiring in between
TokenNext ==
    \/ \E u \in StoreUsers, o \in SessionKmsOptions : CreateProfile(u, o)
    \/ \E u \in StoreUsers : Open(u, UnlockByPassphrase)
    \/ \E u \in StoreUsers : Close(u)
    \/ Tick
    \/ \E u \in StoreUsers, t \in TokenInputs, c \in StoreInputs : Add(u, t, c[1], c[2])

SpecToken == Init /\ [][TokenNext]_vars

\* content of two types, one id in use under both, and two credentials of
\* one id
NamespaceInputs ==
    ContentInputs \cup {<<"Metadata", Blob(0, Other("c1"))>>,
                        <<"Credential", Blob(2, TamperedVC)>>}
NamespaceIDs ==
    ContentIDs \cup {<<"Metadata", "c1">>}
NamespaceTypes == {"Credential", "Metadata", "Collection"}

\* the wallets of two users saving, removing and listing content
NamespaceNext ==
    \/ \E u \in Users, o \in SessionKmsOptions : CreateProfile(u, o)
    \/ \E u \in Users : Open(u, UnlockByPassphrase)
    \/ \E u \in Users, c \in NamespaceInputs :
          \E t \in ContentTokens(u) \ {ForgedToken} : Add(u, t, c[1], c[2])
    \/ \E u \in Users, c \in NamespaceIDs : Remove(u, c[1], c[2])
    \/ \E u \in Users, ct \in NamespaceTypes : GetAll(u, ct)

SpecNamespace == Init /\ [][NamespaceNext]_vars

\* the proof options Issue and Prove are called with: the defaults, a
\* verification method of both relationships, of assertionMethod only,
\* of neither, a controller the external VDR does not know, each
\* supported proof type and one that is not
RsaSignature2018 == "RsaSignature2018"
ProofOptionInputs ==
    {ProofOptions("did:a", "", "", ""),
     ProofOptions("did:a", "did:a#k2", "", ""),
     ProofOptions("did:a", "did:a#k1", "", ""),
     ProofOptions("did:a", "did:a#k9", "", ""),
     ProofOptions("did:b", "", "", ""),
     ProofOptions("did:a", "", JSONWebSignature2020, SignatureProofValue),
     ProofOptions("did:a", "", BbsBlsSignature2020, ""),
     ProofOptions("did:a", "", RsaSignature2018, "")}
\* a credential without a proof and one that carries a proof that does not
\* check
ProofCredentials == {Blob(0, SampleVC), Blob(0, TamperedVC)}
\* DID resolution responses a wallet may hold: another document for did:a,
\* and one for did:b, which has no assertionMethod
ProofDocuments == {Blob(0, DIDRes(DocA2)), Blob(0, DIDRes(DocB))}
ProofProveOptions == {ProveOptions(<< >>, <<Blob(0, SampleVC)>>, << >>, NoPresentation)}
\* a token no session has, and the token of every session there is
ProofTokens ==
    {ForgedToken} \cup {sessions[u].token : u \in {v \in Users : sessions[v] # NoSession}}

\* the wallet that issues and proves
ProofUsers == {"alice"}

\* issuing and proving in one wallet while documents are saved in it and
\* sessions of it are opened
ProofNext ==
    \/ \E u \in ProofUsers, o \in SessionKmsOptions : CreateProfile(u, o)
    \/ \E u \in ProofUsers : Open(u, UnlockByPassphrase)
    \/ \E u \in ProofUsers, d \in ProofDocuments :
          \E t \in ContentTokens(u) \ {ForgedToken} : Add(u, t, "DIDResolutionResponse", d)
    \/ \E u \in ProofUsers, c \in ProofCredentials, o \in ProofOptionInputs :
          \E t \in ProofTokens : Issue(u, t, c, o)
    \/ \E u \in ProofUsers, o \in ProofOptionInputs, c \in ProofProveOptions :
          \E t \in ProofTokens : Prove(u, t, o, c)
    \/ IssueSign
    \/ ProveSign

SpecProof == Init /\ [][ProofNext]_vars

\* the proof options of the round trip: the defaults, and a verification
\* method that is given
RoundTripOptions ==
    {ProofOptions("did:a", "", "", ""),
     ProofOptions("did:a", "did:a#k2", "", "")}
\* the credentials handed to Issue: one without a proof, one that carries
\* a proof that checks and one that carries a proof that does not
RoundTripCredentials == {Blob(0, SampleVC), Blob(0, SignedVC), Blob(0, TamperedVC)}
\* the token of every session there is
RoundTripTokens == ProofTokens \ {ForgedToken}

\* issuing in the wallets of two users, and the verification, in any
\* wallet, of the credential an Issue has just returned, while another
\* document for did:a is saved
RoundTripNext ==
    \/ \E u \in Users, o \in SessionKmsOptions : CreateProfile(u, o)
    \/ \E u \in Users : Open(u, UnlockByPassphrase)
    \/ \E u \in Users :
          \E t \in ContentTokens(u) \ {ForgedToken} :
              Add(u, t, "DIDResolutionResponse", Blob(0, DIDRes(DocA2)))
    \/ \E u \in Users, c \in RoundTripCredentials, o \in RoundTripOptions :
          \E t \in RoundTripTokens : Issue(u, t, c, o)
    \/ \E u \in Users :
          /\ last.op = "Issue"
          /\ ~Failed(last.err)
          /\ Verify(u, VerificationOption("", Marshal(last.out), NoBlob))
    \/ IssueSign
    \/ VerifyCheck

SpecRoundTrip == Init /\ [][RoundTripNext]_vars

\* SampleVC with a proof whose verification method is of a DID that nothing
\* resolves
UnresolvableVC ==
    AddLinkedDataProof(SampleVC,
        [VerificationMethod |-> "did:b#k1", SignatureRepresentation |-> SignatureJWS,
         SignatureType |-> Ed25519Signature2018, Created |-> "", Domain |-> "",
         Challenge |-> "", Purpose |-> supportedRelationships[AssertionMethod]],
        [kms |-> "bob", key |-> "did:b#k1"]).p

\* the wallet whose presentations are observed
PresentUsers == {"alice"}
\* the credentials it stores: c1 with a proof that checks or with one that
\* does not, c2 without a proof
PresentCredentials == {Blob(0, SignedVC), Blob(0, TamperedVC), Blob(0, OtherVC)}
\* what Prove is asked to present: two stored ids; a stored id, raw bytes
\* and a parsed credential; a stored id after which comes one that was
\* never stored; raw bytes that are no credential; a stored id to add to a
\* presentation that already holds a credential
PresentProveOptions ==
    {ProveOptions(<<"c1", "c2">>, << >>, << >>, NoPresentation),
     ProveOptions(<<"c1">>, <<Blob(0, TamperedVC)>>, <<OtherVC>>, NoPresentation),
     ProveOptions(<<"c2", "c9">>, << >>, << >>, NoPresentation),
     ProveOptions(<< >>, <<Blob(0, Junk)>>, << >>, NoPresentation),
     ProveOptions(<<"c1">>, << >>, << >>, NewPresentation(<<OtherVC>>))}
PresentProofOptions ==
    {ProofOptions("did:a", "", "", ""),
     ProofOptions("did:b", "", "", "")}
\* presentations without a proof of their own, with credentials that fail
\* for different reasons in both orders
PresentPresentations ==
    {Blob(0, NewPresentation(<<SignedVC, TamperedVC, UnresolvableVC>>)),
     Blob(0, NewPresentation(<<SignedVC, UnresolvableVC, TamperedVC>>)),
     Blob(0, NewPresentation(<<SignedVC, OtherVC>>))}
\* the requests of Verify: a stored id, a raw credential, a raw
\* presentation, nothing at all
PresentVerifyOptions ==
    {VerificationOption("c1", NoBlob, NoBlob),
     VerificationOption("", Blob(0, TamperedVC), NoBlob),
     VerificationOption("", NoBlob, NoBlob)}
      \cup {VerificationOption("", NoBlob, p) : p \in PresentPresentations}
\* the presentation a Prove has just returned, as it is and with its holder
\* changed after it was signed
ProvedPresentations ==
    IF last.op = "Prove" /\ ~Failed(last.err)
    THEN {last.out, [last.out EXCEPT !.holder = "did:mallory"]}
    ELSE {}

\* presenting and verifying in one wallet, in and out of a session
PresentNext ==
    \/ \E u \in PresentUsers, o \in SessionKmsOptions : CreateProfile(u, o)
    \/ \E u \in PresentUsers : Open(u, UnlockByPassphrase)
    \/ \E u \in PresentUsers : Close(u)
    \/ \E u \in PresentUsers, c \in PresentCredentials :
          \E t \in ContentTokens(u) \ {ForgedToken} : Add(u, t, "Credential", c)
    \/ \E u \in PresentUsers : Remove(u, "Credential", "c1")
    \/ \E u \in PresentUsers, o \in PresentProofOptions, c \in PresentProveOptions :
          \E t \in ContentTokens(u) : Prove(u, t, o, c)
    \/ \E u \in PresentUsers, o \in PresentVerifyOptions : Verify(u, o)
    \/ \E u \in PresentUsers, p \in ProvedPresentations :
          Verify(u, VerificationOption("", NoBlob, Marshal(p)))
    \/ ProveGet
    \/ ProveValidate
    \/ ProveSign
    \/ VerifyCheck

SpecPresent == Init /\ [][PresentNext]_vars

\* a credential whose @context names the BBS context already; SampleVC
\* does not name it
BbsVC == VC("c1", "UniversityDegreeCredential", <<baseContext, bbsContext>>, << >>)
BbsCredentials == {Blob(0, SampleVC), Blob(0, BbsVC)}
BbsProofOptions ==
    {ProofOptions("did:a", "", BbsBlsSignature2020, ""),
     ProofOptions("did:a", "did:a#k1", BbsBlsSignature2020, ""),
     ProofOptions("did:a", "", "", ""),
     ProofOptions("did:b", "", BbsBlsSignature2020, "")}
\* the credential an Issue has just returned, to be issued once more
IssuedCredentials ==
    IF last.op = "Issue" /\ ~Failed(last.err) /\ Len(last.out.proofs) < 2
    THEN {Marshal(last.out)}
    ELSE {}

\* issuing with and without BBS+ in the wallets of two users
BbsNext ==
    \/ \E u \in Users, o \in SessionKmsOptions : CreateProfile(u, o)
    \/ \E u \in Users : Open(u, UnlockByPassphrase)
    \/ \E u \in Users, c \in BbsCredentials, o \in BbsProofOptions :
          \E t \in ProofTokens : Issue(u, t, c, o)
    \/ \E u \in Users, c \in IssuedCredentials, o \in BbsProofOptions :
          \E t \in ProofTokens : Issue(u, t, c, o)
    \/ IssueSign

SpecBbs == Init /\ [][BbsNext]_vars

\* the credentials the queried wallet stores
QueryCredentials == {Blob(0, SignedVC), Blob(0, OtherVC)}
\* the queries of one call: one query; two dialects in both orders; two
\* dialects that select the same credential; a query that selects nothing,
\* alone and between two that select something; a dialect that is not
\* supported
QueryInputs ==
    {<<QueryParams("QueryByExample", "UniversityDegreeCredential")>>,
     <<QueryParams("QueryByFrame", "AgeCredential"),
       QueryParams("PresentationExchange", "UniversityDegreeCredential")>>,
     <<QueryParams("PresentationExchange", "UniversityDegreeCredential"),
       QueryParams("QueryByFrame", "AgeCredential")>>,
     <<QueryParams("QueryByExample", "UniversityDegreeCredential"),
       QueryParams("QueryByFrame", "UniversityDegreeCredential")>>,
     <<QueryParams("QueryByExample", "PermanentResidentCard")>>,
     <<QueryParams("QueryByExample", "AgeCredential"),
       QueryParams("QueryByExample", "PermanentResidentCard"),
       QueryParams("QueryByFrame", "UniversityDegreeCredential")>>,
     <<QueryParams("QueryByExample", "AgeCredential"),
       QueryParams("DIDAuth", "")>>}

\* storing, removing and querying in one wallet
QueryNext ==
    \/ \E u \in PresentUsers, o \in SessionKmsOptions : CreateProfile(u, o)
    \/ \E u \in PresentUsers : Open(u, UnlockByPassphrase)
    \/ \E u \in PresentUsers, c \in QueryCredentials :
          \E t \in ContentTokens(u) \ {ForgedToken} : Add(u, t, "Credential", c)
    \/ \E u \in PresentUsers, id \in {"c1", "c2"} : Remove(u, "Credential", id)
    \/ \E u \in PresentUsers, q \in QueryInputs : Query(u, q)

SpecQuery == Init /\ [][QueryNext]_vars

\* the wallet whose resolutions are observed: its KMS holds a key for a
\* method of every document
ResolveUsers == {"bob"}
ResolveProofOptions == {ProofOptions("did:a", "", "", ""), ProofOptions("did:b", "", "", "")}
ResolveProveOptions == {ProveOptions(<< >>, << >>, <<SampleVC>>, NoPresentation)}

\* DID resolution responses added to and removed from a wallet that issues
\* and proves for their DIDs
ResolveNext ==
    \/ \E u \in ResolveUsers, o \in SessionKmsOptions : CreateProfile(u, o)
    \/ \E u \in ResolveUsers : Open(u, UnlockByPassphrase)
    \/ \E u \in ResolveUsers, d \in ProofDocuments :
          \E t \in ContentTokens(u) \ {ForgedToken} : Add(u, t, "DIDResolutionResponse", d)
    \/ \E u \in ResolveUsers, did \in {"did:a", "did:b"} :
          Remove(u, "DIDResolutionResponse", did)
    \/ \E u \in ResolveUsers, o \in ResolveProofOptions :
          \E t \in ContentTokens(u) : Issue(u, t, Blob(0, SampleVC), o)
    \/ \E u \in ResolveUsers, o \in ResolveProofOptions, c \in ResolveProveOptions :
          \E t \in ContentTokens(u) : Prove(u, t, o, c)
    \/ IssueSign
    \/ ProveSign

SpecResolve == Init /\ [][ResolveNext]_vars

\* the users whose wallets the threads hold, and the tokens they try
RegistryUsers == {"alice"}
RegistryTokens == {ForgedToken} \cup {TokenOf(n) : n \in 1..(nextToken - 1)}

\* threads of several wallets in the registry at once
RegistryNext ==
    \/ \E u \in RegistryUsers, o \in SessionKmsOptions : CreateProfile(u, o)
    \/ \E t \in Threads, u \in RegistryUsers : createKeyManagerCall(t, u)
    \/ \E t \in Threads, u \in RegistryUsers : removeKeyManagerCall(t, u)
    \/ \E t \in Threads, a \in RegistryTokens : resolveSignerCall(t, a)
    \/ \E t \in Threads : acquire(t)
    \/ \E t \in Threads : createKeyManagerPut(t)
    \/ \E t \in Threads : createKeyManagerExpiry(t)
    \/ \E t \in Threads : removeKeyManagerDelete(t)
    \/ \E t \in Threads : resolveSignerGet(t)

SpecRegistry == Init /\ [][RegistryNext]_vars

\* the channels handed to the registration calls
EventChannels == Channels \cup {NilChannel}

\* consumers registering and unregistering their channels
EventNext ==
    \/ \E ch \in EventChannels : RegisterActionEvent(ch)
    \/ \E ch \in EventChannels : UnregisterActionEvent(ch)
    \/ \E ch \in Channels : RegisterMsgEvent(ch)
    \/ \E ch \in Channels : UnregisterMsgEvent(ch)
    \/ \E k \in 1..MaxEvents : UnregisterMsgEventCopy(k)

SpecEvent == Init /\ [][EventNext]_vars

\* the messages handed to Handle, and what goes wrong while they are handled
ExchangeThreads == {"th1"}
ExchangeTypes == {ConnectionInvite, ConnectionRequest, ConnectionResponse, ConnectionAck}
\* the messages of one thread: a request that arrives and the response
\* that is sent to it
ExchangeMessages ==
    {DIDCommMsg(ConnectionRequest, FALSE, "th1"),
     DIDCommMsg(ConnectionResponse, TRUE, "th1")}
ExchangeFaults == {NoFault, Fault("Put", "")}
MessageIDs == {generateRandomID(n) : n \in 1..MaxMessages}
StopErrors == {Nil, Err("stopped")}
ProcessFaults == {NoFault, Fault("Get", "")}

\* messages of one thread arrive, the consumer registers, takes the action
\* events and invokes their callbacks, as often as it likes, the internal
\* listener processes the callbacks; every step of a call is a step of its
\* own, and the steps of Handle, of the listener and of the consumer
\* interleave.  Nobody has registered for the message events
ExchangeNext ==
    \/ RegisterActionEvent("ch1")
    \/ UnregisterActionEvent("ch1")
    \/ \E msg \in ExchangeMessages, fault \in ExchangeFaults : HandleEnter("g1", msg, fault)
    \/ HandleCheck("g1")
    \/ \E g \in {"g1", Listener} : sendMsgEventsSnapshot(g)
    \/ sendActionEventPut("g1")
    \/ sendActionEventSend("g1")
    \/ \E g \in {"g1", Listener} : handleUpdate(g)
    \/ \E id \in MessageIDs : Continue(id)
    \/ \E id \in MessageIDs, err \in StopErrors : Stop(id, err)
    \/ \E fault \in ProcessFaults : process(fault)

SpecExchange == Init /\ [][ExchangeNext]_vars

\* the same with Handle called on two goroutines at a time (the second is
\* used while the first is in a call)
RaceNext ==
    \/ RegisterActionEvent("ch1")
    \/ UnregisterActionEvent("ch1")
    \/ \E msg \in ExchangeMessages, fault \in ExchangeFaults : HandleEnter("g1", msg, fault)
    \/ \E msg \in ExchangeMessages, fault \in ExchangeFaults :
          service.procs["g1"].pc # "idle" /\ HandleEnter("g2", msg, fault)
    \/ \E g \in Callers : HandleCheck(g)
    \/ \E g \in Goroutines : sendMsgEventsSnapshot(g)
    \/ \E g \in Callers : sendActionEventPut(g)
    \/ \E g \in Callers : sendActionEventSend(g)
    \/ \E g \in Goroutines : handleUpdate(g)
    \/ \E id \in MessageIDs : Continue(id)
    \/ \E id \in MessageIDs, err \in StopErrors : Stop(id, err)
    \/ \E fault \in ProcessFaults : process(fault)

SpecRace == Init /\ [][RaceNext]_vars

\* chains of states with a consumer of the message events: an invitation
\* arrives (invited, then requested) or a request is sent, and executing,
\* persisting or the action of a state may fail
ChainMessages ==
    {DIDCommMsg(ConnectionInvite, FALSE, ""), DIDCommMsg(ConnectionRequest, TRUE, "th1")}
ChainStates == {"invited", "requested"}
ChainFaults ==
    {NoFault, Fault("threadID", ""), Fault("currentState", "")}
        \cup {Fault(step, state) : step \in {"Execute", "Persist", "Action"},
                                   state \in ChainStates}

ChainNext ==
    \/ RegisterActionEvent("ch1")
    \/ service.msgEvents = << >> /\ RegisterMsgEvent("ch1")
    \/ UnregisterMsgEvent("ch1")
    \/ \E msg \in ChainMessages, fault \in ChainFaults : HandleEnter("g1", msg, fault)
    \/ HandleCheck("g1")
    \/ sendMsgEventsSnapshot("g1")
    \/ sendMsgEventsDeliver("g1")
    \/ handleUpdate("g1")

SpecChain == Init /\ [][ChainNext]_vars

\* the documents and options handed to the did:key Create
CreateKeys ==
    {KeyBytes("ka", 32), KeyBytes("kb", 64), KeyBytes("kc", 96), KeyBytes("kd", 10)}
CreateMethods ==
    {VerificationMethod("", type, "", value) :
        type \in {ed25519VerificationKey2018, bls12381G2Key2020, jsonWebKey2020,
                  x25519KeyAgreementKey2019},
        value \in CreateKeys}
CreateDocs ==
    {[VerificationMethod |-> << >>]}
        \cup {[VerificationMethod |-> <<m>>] : m \in CreateMethods}
        \cup {[VerificationMethod |-> <<m, VerificationMethod("", bls12381G2Key2020, "",
                                                              KeyBytes("ke", 96))>>] :
                 m \in {VerificationMethod("", ed25519VerificationKey2018, "",
                                           KeyBytes("ka", 32))}}
CreateOpts ==
    {DIDMethodOpts(keyType, enc) :
        keyType \in {"", "ED25519", "ECDSAP256DER"},
        enc \in {NoEncryptionKey, [other |-> "value"],
                 VerificationMethod("did:x#enc", x25519KeyAgreementKey2019, "did:x",
                                    KeyBytes("kx", 32))}}

CreateNext == \E didDoc \in CreateDocs, opts \in CreateOpts : CreateDID(didDoc, opts)

SpecCreate == Init /\ [][CreateNext]_vars

\* the messages handed to the client, the parties, the answers of the service
ClientOps == {"SendOffer", "SendProposal", "SendRequest"}
ClientMessages ==
    {NilMessage, ClientMessage("", ""), ClientMessage("", "hello"),
     ClientMessage(RequestCredentialMsgType, "")}
ClientDIDs == {"Alice", "Bob"}
ClientAnswers == {Answer("piid", Nil), Answer("piid-2", Nil), Answer("", Err("service failed"))}

ClientNext ==
    \E op \in ClientOps, msg \in ClientMessages, myDID \in ClientDIDs, theirDID \in ClientDIDs,
       answer \in ClientAnswers : ClientCall(op, msg, myDID, theirDID, answer)

SpecClient == Init /\ [][ClientNext]_vars

\* calls of Issue in which any of its steps may be the first to fail: a
\* credential that does not parse, options without controller, a controller
\* that does not resolve, a verification method that is not there, a token
\* of no session, a proof type that is not supported
OrderUsers == {"alice"}
OrderCredentials == {Blob(0, SampleVC), Blob(0, Junk)}
OrderOptions ==
    {NilOptions,
     ProofOptions("", "", RsaSignature2018, ""),
     ProofOptions("did:b", "", RsaSignature2018, ""),
     ProofOptions("did:a", "did:a#k9", RsaSignature2018, ""),
     ProofOptions("did:a", "", RsaSignature2018, ""),
     ProofOptions("did:a", "", "", ""),
     ProofOptions("did:a", "did:a#k9", "", "")}

OrderNext ==
    \/ \E u \in OrderUsers, o \in SessionKmsOptions : CreateProfile(u, o)
    \/ \E u \in OrderUsers : Open(u, UnlockByPassphrase)
    \/ \E u \in OrderUsers : Close(u)
    \/ \E u \in OrderUsers :
          \E t \in ContentTokens(u) \ {ForgedToken} :
             Add(u, t, "DIDResolutionResponse", Blob(0, DIDRes(DocB)))
    \/ \E u \in OrderUsers, c \in OrderCredentials, o \in OrderOptions :
          \E t \in ContentTokens(u) : Issue(u, t, c, o)
    \/ IssueSign

SpecOrder == Init /\ [][OrderNext]_vars

\* what is signed: credentials by Issue, presentations by Prove, built for
\* the request or handed in by the caller (one of them naming the BBS
\* context and holding a proof already), with and without BBS+
TargetUsers == {"alice"}
TargetStored == {Blob(0, SignedVC), Blob(0, OtherVC)}
TargetCredentials == {Blob(0, SampleVC), Blob(0, BbsVC)}
GivenPresentation ==
    [VP(<<baseContext, bbsContext>>, <<OtherVC, SampleVC>>, "did:other", << >>)
        EXCEPT !.proofs = SignedVC.proofs]
TargetProveOptions ==
    {ProveOptions(<<"c1", "c2">>, <<Blob(0, TamperedVC)>>, <<SampleVC>>, NoPresentation),
     ProveOptions(<<"c2", "c1">>, << >>, << >>, NoPresentation),
     ProveOptions(<< >>, << >>, << >>, NoPresentation),
     ProveOptions(<<"c1">>, <<Blob(0, TamperedVC)>>, <<SampleVC>>,
                  NewPresentation(<<OtherVC>>)),
     ProveOptions(<<"c2">>, << >>, <<SignedVC>>, GivenPresentation),
     ProveOptions(<< >>, << >>, << >>, GivenPresentation)}
TargetProofOptions ==
    {ProofOptions("did:a", "", BbsBlsSignature2020, ""),
     ProofOptions("did:a", "", "", "")}

TargetNext ==
    \/ \E u \in TargetUsers, o \in SessionKmsOptions : CreateProfile(u, o)
    \/ \E u \in TargetUsers : Open(u, UnlockByPassphrase)
    \/ \E u \in TargetUsers, c \in TargetStored :
          \E t \in ContentTokens(u) \ {ForgedToken} : Add(u, t, "Credential", c)
    \/ \E u \in TargetUsers, c \in TargetCredentials, o \in TargetProofOptions :
          \E t \in ContentTokens(u) : Issue(u, t, c, o)
    \/ \E u \in TargetUsers, o \in TargetProofOptions, c \in TargetProveOptions :
          \E t \in ContentTokens(u) : Prove(u, t, o, c)
    \/ IssueSign
    \/ ProveGet
    \/ ProveValidate
    \/ ProveSign

SpecTarget == Init /\ [][TargetNext]_vars

\* message events sent while consumers register and unregister their
\* channels, each channel registered once at a time
SendingChannels == Channels \cup {"ch3"}
Registered(ch) == \E i \in 1..Len(service.msgEvents) : service.msgEvents[i] = ch

SendingMessages == {DIDCommMsg(ConnectionRequest, FALSE, "th1")}

SendingNext ==
    \/ RegisterActionEvent("ch1")
    \/ \E ch \in SendingChannels : ~Registered(ch) /\ RegisterMsgEvent(ch)
    \/ \E ch \in SendingChannels : UnregisterMsgEvent(ch)
    \/ \E k \in 1..MaxEvents : UnregisterMsgEventCopy(k)
    \/ \E msg \in SendingMessages : HandleEnter("g1", msg, NoFault)
    \/ HandleCheck("g1")
    \/ sendMsgEventsSnapshot("g1")
    \/ sendMsgEventsDeliver("g1")
    \/ sendActionEventPut("g1")
    \/ sendActionEventSend("g1")

SpecSending == Init /\ [][SendingNext]_vars


(***************************************************************************)
(* Claims about the session lifecycle.                                     *)
(***************************************************************************)
SignerOps == {"Issue", "Prove", "Add"}

IssuedTokens == {TokenOf(n) : n \in 1..(nextToken - 1)}
NeverIssued(token) == token \notin IssuedTokens

\* the token is in the registry under some user and its expiry has passed
ExpiredToken(token) ==
    \E u \in Users :
        /\ sessions[u] # NoSession
        /\ sessions[u].token = token
        /\ now >= sessions[u].expiry

\* the step is the return of a call: a call in flight that goes on returns
\* nothing
Returning == inflight' = inflight \/ inflight' = IdleCall

\* the reads of the given kind that the last call made, in order
SawOf(read) == SelectSeq(last.saw, LAMBDA r : r.read = read)

\* the step is a step of a call of the operation: the call in flight is
\* one and moves, or one is made and returns at once
StepOf(op) ==
    \/ inflight' # inflight /\ op \in {inflight.op, inflight'.op}
    \/ last' # last /\ last'.op = op

\* the reads the call in flight makes in the step, in order
NewReads ==
    IF inflight = IdleCall \/ inflight' = inflight
    THEN << >>
    ELSE LET after == IF inflight' = IdleCall THEN last'.saw ELSE inflight'.saw IN
         SubSeq(after, Len(inflight.saw) + 1, Len(after))

\* the blobs the user has saved under the content type and id and not
\* removed since
SavedBlobs(userID, contentType, contentID) ==
    {e.blob : e \in {x \in entries : /\ x.user = userID
                                     /\ x.type = contentType
                                     /\ x.id = contentID}}

\* what a read of the store returns, going by the saves and the removals
\* made so far: the entry of a key, the document a DID resolves to (the
\* stored one when there is one, the answer of the external VDR otherwise),
\* the key of a verification method
SavedGet(userID, contentType, contentID) ==
    LET blobs == SavedBlobs(userID, contentType, contentID) IN
    IF blobs = {}
    THEN [err |-> Err("NotFound"), blob |-> NoBlob]
    ELSE [err |-> Nil, blob |-> CHOOSE b \in blobs : TRUE]
SavedResolve(userID, did) ==
    LET got == SavedGet(userID, "DIDResolutionResponse", did) IN
    IF ~Failed(got.err)
    THEN [err |-> Nil, doc |-> got.blob.json.doc]
    ELSE ExternalVDR(did)
KeyOf(resolved, vm) ==
    IF Failed(resolved.err)
    THEN [err |-> resolved.err, key |-> ""]
    ELSE IF vm \in DOMAIN resolved.doc.keys
    THEN [err |-> Nil, key |-> resolved.doc.keys[vm]]
    ELSE [err |-> Err("KeyNotFound"), key |-> ""]

\* the read returned what the store, or the registry, held when it was
\* made
Faithful(userID, r) ==
    CASE r.read = "Get" -> r.got = SavedGet(userID, "Credential", r.of)
      [] r.read = "Resolve" -> r.got = SavedResolve(userID, r.of)
      [] r.read = "Key" -> r.got = KeyOf(SavedResolve(userID, DIDOf(r.of)), r.of)
      [] r.read = "Signer" -> Failed(r.got.err) = ~TokenValid(r.of)

\* the last call, a signer-requiring one, got as far as asking the registry
\* for the token: no earlier step of it failed
ReachedSigner ==
    \/ last.op = "Add"
    \/ /\ last.op \in {"Issue", "Prove"}
       /\ SawOf("Signer") # << >>

\* C1 as stated: Issue, Prove and Add succeed only while the user of the
\* wallet they are called on is Unlocked, and with a token that was never
\* issued or whose session was closed each of them fails with
\* InvalidAuthToken.
C1_SignerOnlyWhileWalletUserUnlocked ==
    last.op \in SignerOps =>
        /\ ~Failed(last.err) => Unlocked(last.user)
        /\ (NeverIssued(last.in.token) \/ last.in.token \in closed) =>
               Is(last.err, "InvalidAuthToken")

\* C1 amended: Issue, Prove and Add succeed only with the token of a live
\* session of some user (the registry looks the token up by value, not by
\* the user of the wallet); with a token that was never issued or whose
\* session was closed each of them fails, with InvalidAuthToken when the
\* call gets as far as the token check.
C1_SignerNeedsLiveToken ==
    last.op \in SignerOps =>
        /\ ~Failed(last.err) => TokenValid(last.in.token)
        /\ (NeverIssued(last.in.token) \/ last.in.token \in closed) =>
               /\ Failed(last.err)
               /\ ReachedSigner => Is(last.err, "InvalidAuthToken")

\* Open, then Close, then Issue with the token of that Open
C1_Witness ==
    /\ last.op = "Issue"
    /\ last.in.token \in closed
    /\ Is(last.err, "InvalidAuthToken")

\* C2: Close returns true iff a session entry of the wallet's user was
\* there, not expired, and this call removed it; it returns false when
\* there is none or it has expired, so a Close right after a Close that
\* returned true returns false.  No other user's entry is touched.
C2_CloseResult ==
    [][Returning /\ last'.op = "Close" =>
          /\ last'.out = Live(last'.user)
          /\ sessions'[last'.user] = NoSession
          /\ \A v \in Users \ {last'.user} : sessions'[v] = sessions[v]
          /\ (last.op = "Close" /\ last.user = last'.user /\ last.out = TRUE) =>
                 last'.out = FALSE]_vars

\* a Close that found the session and removed it
C2_Witness ==
    /\ last.op = "Close"
    /\ last.out = TRUE
    /\ sessions[last.user] = NoSession

AllTokens == {TokenOf(n) : n \in 1..MaxTokens}

\* the tokens that unlock a session of the user
ValidTokensOf(userID) ==
    {t \in IssuedTokens : Live(userID) /\ sessions[userID].token = t}

\* C3: the registry holds at most one session per user: an Open replaces
\* the entry the user had, the token of the earlier Open is accepted no
\* longer and a signer-requiring call succeeds with a current token only.
C3_OneSessionPerUser ==
    /\ [](\A u \in Users : Cardinality(ValidTokensOf(u)) <= 1)
    /\ [](last.op \in SignerOps /\ ~Failed(last.err) =>
             \E u \in Users : sessions[u] # NoSession /\ sessions[u].token = last.in.token)
    /\ [][\A u \in Users, t \in AllTokens :
             (Returning /\ last'.op = "Open" /\ last'.user = u) =>
                 /\ sessions'[u].token = last'.out
                 /\ (sessions[u] # NoSession /\ sessions[u].token = t) =>
                        /\ t # last'.out
                        /\ ~TokenValid(t)']_vars

\* a second Open of a user whose first session is still there made a
\* signer-requiring call with the first token fail
C3_Witness ==
    /\ last.op \in SignerOps
    /\ Is(last.err, "InvalidAuthToken")
    /\ last.in.token \in IssuedTokens \ closed
    /\ ~ExpiredToken(last.in.token)
    /\ Live(last.user)

\* C4: a token expires by time alone: once its expiry has passed, a
\* signer-requiring call that uses it fails with InvalidAuthToken, and its
\* user is Locked and stays so until an Open.
C4_TokenExpires ==
    /\ [](last.op \in SignerOps /\ ExpiredToken(last.in.token) /\ ReachedSigner =>
             Is(last.err, "InvalidAuthToken"))
    /\ [](\A u \in Users : WalletExists(u) /\ sessions[u] # NoSession
                              /\ now >= sessions[u].expiry => Locked(u))
    /\ [][\A u \in Users :
             (WalletExists(u) /\ sessions[u] # NoSession /\ now >= sessions[u].expiry
                  /\ ~(Returning /\ last'.op = "Open" /\ last'.user = u)) => Locked(u)']_vars

\* no Close was made, time has passed, and the call with the token failed
C4_Witness ==
    /\ last.op \in SignerOps
    /\ ExpiredToken(last.in.token)
    /\ closed = {}
    /\ Is(last.err, "InvalidAuthToken")


(***************************************************************************)
(* Claims about the profile store.                                         *)
(***************************************************************************)
\* C5 as stated: storage holds at most one profile record per user, and a
\* CreateProfile for a user that has a profile fails with AlreadyExists and
\* leaves the stored profile as it is.
C5_CreateExistingAlreadyExists ==
    [][\A u \in Users :
          (last'.op = "CreateProfile" /\ last'.user = u /\ WalletExists(u)) =>
              /\ Is(last'.err, "AlreadyExists")
              /\ profiles' = profiles]_vars

\* C5 amended: storage holds at most one profile record per user, the one
\* of the last successful CreateProfile or UpdateProfile; a CreateProfile
\* for a user that has a profile fails and leaves the stored profile as it
\* is, with AlreadyExists when the binding it is given is complete (an
\* incomplete binding is rejected before the store is looked at).
C5_CreateExistingFails ==
    /\ [](DOMAIN profiles \subseteq {ProfileKey(u) : u \in Users})
    /\ [](\A u \in Users : WalletExists(u) =>
             /\ profiles[ProfileKey(u)].User = u
             /\ VariantsSet(profiles[ProfileKey(u)]) = 1)
    /\ [][\A u \in Users :
             (last'.op = "CreateProfile" /\ last'.user = u /\ WalletExists(u)) =>
                 /\ Failed(last'.err)
                 /\ VariantsSet(last'.in) = 1 => Is(last'.err, "AlreadyExists")
                 /\ profiles' = profiles]_vars

\* a CreateProfile with another passphrase for a user that has a profile
C5_Witness ==
    /\ last.op = "CreateProfile"
    /\ Is(last.err, "AlreadyExists")
    /\ WalletExists(last.user)
    /\ profiles[ProfileKey(last.user)].passphrase # last.in.passphrase

\* C6: UpdateProfile for a user that has no profile fails with NotFound and
\* writes no profile record.
C6_UpdateMissingNotFound ==
    [][\A u \in Users :
          (last'.op = "UpdateProfile" /\ last'.user = u /\ ~WalletExists(u)) =>
              /\ Is(last'.err, "NotFound")
              /\ profiles' = profiles]_vars

\* an UpdateProfile with a complete binding that found no profile
C6_Witness ==
    /\ last.op = "UpdateProfile"
    /\ VariantsSet(last.in) = 1
    /\ Is(last.err, "NotFound")
    /\ ~WalletExists(last.user)

\* C7: UpdateProfile creates the profile when the user has none: called
\* with a complete binding it succeeds and a profile of the user is stored
\* afterwards.
C7_UpdateCreatesProfile ==
    (last.op = "UpdateProfile" /\ VariantsSet(last.in) = 1) =>
        /\ ~Failed(last.err)
        /\ WalletExists(last.user)


(***************************************************************************)
(* Claims about the content store and the calls that read it.              *)
(***************************************************************************)
ReadOps == {"Get", "GetAll", "Query", "Verify"}

\* C8: Get, GetAll, Query and Verify take no token and work while the
\* wallet is Locked: none of them fails for want of a session, and each
\* returns the same for the same request whether a session is open or
\* not, so an Open or a Close changes no result of theirs.  What a Verify
\* reads is the content store only, and each read returns what the store
\* holds when it is made.
C8_ReadsNeedNoSession ==
    /\ [](last.op \in ReadOps =>
             /\ ~Is(last.err, "InvalidAuthToken")
             /\ last.op = "Get" =>
                    (Failed(last.err) <=>
                        ContentKey(last.user, last.in.type, last.in.id) \notin DOMAIN contents)
             /\ last.op = "GetAll" => ~Failed(last.err)
             /\ last.op = "Query" => last.out = QueryResult(last.user, last.in).presentations
             /\ last.op = "Verify" =>
                    /\ last.out = ~Failed(last.err)
                    /\ \A i \in DOMAIN last.saw : last.saw[i].read \in {"Get", "Key"})
    /\ [](last.op \in {"Open", "Close"} => ReadResults = reads)
    /\ [][\A i \in DOMAIN NewReads :
             inflight.op = "Verify" => Faithful(inflight.user, NewReads[i])]_vars

\* a stored credential verified on a wallet that is Locked again after a
\* session of its user was closed
C8_Witness ==
    /\ last.op = "Verify"
    /\ last.in.credentialID = "c1"
    /\ last.out = TRUE
    /\ Locked(last.user)
    /\ closed # {}

\* C9: a blob that Add has saved is what Get returns for its key, byte for
\* byte (nothing is canonicalised), for as long as the entry is not removed:
\* the entry is written as given, no call other than a Remove of that key
\* changes or drops it, and Get returns the entry as stored.
C9_ContentRoundTrip ==
    /\ [](last.op = "Add" /\ ~Failed(last.err) =>
             contentsGet(last.user, last.in.type, last.out) =
                 [err |-> Nil, blob |-> last.in.content])
    /\ [](last.op = "Get" /\ ~Failed(last.err) =>
             last.out = contents[ContentKey(last.user, last.in.type, last.in.id)])
    /\ [][\A k \in DOMAIN contents :
             \/ k \in DOMAIN contents' /\ contents'[k] = contents[k]
             \/ /\ last'.op = "Remove"
                /\ k = ContentKey(last'.user, last'.in.type, last'.in.id)]_vars

\* a Get that returned a blob saved in a form that is not the canonical one
C9_Witness ==
    /\ last.op = "Get"
    /\ ~Failed(last.err)
    /\ last.out.form # 0
    /\ last.out # Canonical(last.out)

\* C10: after a Remove, a Get of the same key on the same wallet yields
\* NotFound, also when the entry had been saved before.
C10_GetAfterRemoveNotFound ==
    (/\ last.op = "Get"
     /\ prev.op = "Remove"
     /\ prev.user = last.user
     /\ prev.in = last.in) =>
        /\ Is(last.err, "NotFound")
        /\ last.out = NoBlob

\* Save, Remove, Get: the Remove found the entry, the Get does not
C10_Witness ==
    /\ last.op = "Get"
    /\ prev.op = "Remove"
    /\ prev.user = last.user
    /\ prev.in = last.in
    /\ prev.existed
    /\ Is(last.err, "NotFound")

\* the key a Save of the content derives, when it derives one
DerivedKeys(userID, contentType, content) ==
    LET cid == getContentID(contentType, content) IN
    IF Failed(cid.err) \/ cid.generated THEN {}
    ELSE {ContentKey(userID, contentType, cid.id)}

\* C11: Save never overwrites: an Add made with a valid token whose derived
\* key is in the store already fails with Duplicate and leaves the store,
\* the blob under that key included, as it was.
C11_SaveNeverOverwrites ==
    [][(/\ last'.op = "Add"
        /\ TokenValid(last'.in.token)
        /\ DerivedKeys(last'.user, last'.in.type, last'.in.content) \cap DOMAIN contents # {})
          => /\ Is(last'.err, "Duplicate")
             /\ contents' = contents]_vars

\* an Add refused as a duplicate whose blob differs from the one stored
\* under its key
C11_Witness ==
    /\ last.op = "Add"
    /\ Is(last.err, "Duplicate")
    /\ \E k \in DerivedKeys(last.user, last.in.type, last.in.content) :
           /\ k \in DOMAIN contents
           /\ contents[k] # last.in.content

\* C12: an Add with a token that was never issued, whose session was
\* closed, or that has expired fails with Unauthorized and writes nothing,
\* whatever the content type.
C12_SaveNeedsValidToken ==
    [][(/\ last'.op = "Add"
        /\ \/ NeverIssued(last'.in.token)
           \/ last'.in.token \in closed
           \/ ExpiredToken(last'.in.token))
          => /\ Is(last'.err, "Unauthorized")
             /\ contents' = contents
             /\ nextUUID' = nextUUID]_vars

\* a key refused because the token has expired, in a store that holds an
\* entry, after another token was closed
C12_Witness ==
    /\ last.op = "Add"
    /\ last.in.type = "Key"
    /\ ExpiredToken(last.in.token)
    /\ closed # {}
    /\ contents # << >>
    /\ Is(last.err, "Unauthorized")

\* the blob is JSON and lacks the id its content type is keyed by
LacksID(contentType, content) ==
    /\ content.json.kind # "junk"
    /\ IF contentType = "DIDResolutionResponse"
       THEN content.json.doc = NoDoc \/ content.json.doc.id = ""
       ELSE content.json.id = ""

\* C13: an Add with a valid token of a Credential without $.id or of a
\* DIDResolutionResponse without $.didDocument.id fails with InvalidContent
\* and writes nothing; of any other type, content without $.id is saved
\* without error, as given, under a generated id no entry had.
C13_MissingID ==
    [][(/\ last'.op = "Add"
        /\ TokenValid(last'.in.token)
        /\ LacksID(last'.in.type, last'.in.content))
          => IF last'.in.type \in {"Credential", "DIDResolutionResponse"}
             THEN /\ Is(last'.err, "InvalidContent")
                  /\ contents' = contents
                  /\ nextUUID' = nextUUID
             ELSE /\ ~Failed(last'.err)
                  /\ last'.out # ""
                  /\ ContentKey(last'.user, last'.in.type, last'.out) \notin DOMAIN contents
                  /\ \A e \in entries : e.id # last'.out
                  /\ contents' =
                        (ContentKey(last'.user, last'.in.type, last'.out) :> last'.in.content)
                            @@ contents]_vars

\* a DID resolution response whose document has no id was refused, and the
\* store holds an entry under a generated id
C13_Witness ==
    /\ last.op = "Add"
    /\ last.in.type = "DIDResolutionResponse"
    /\ last.in.content.json.doc # NoDoc
    /\ Is(last.err, "InvalidContent")
    /\ \E e \in entries : e.blob.json.id = "" /\ e.type = "Connection"

\* C14: Remove is idempotent.  It returns no error and takes the entry of
\* its key, and no other entry, out of the store; when the key has no
\* entry the store stays as it is, so that a Remove made again right after
\* a Remove of the same key changes nothing.
C14_RemoveIdempotent ==
    [][last'.op = "Remove" =>
          LET key == ContentKey(last'.user, last'.in.type, last'.in.id) IN
          /\ last'.err = Nil
          /\ DOMAIN contents' = DOMAIN contents \ {key}
          /\ \A k \in DOMAIN contents' : contents'[k] = contents[k]
          /\ key \notin DOMAIN contents => contents' = contents
          /\ (last.op = "Remove" /\ last.user = last'.user /\ last.in = last'.in)
                 => contents' = contents]_vars

\* Remove, Remove of the same key: the first took the entry out, the second
\* found none, and an entry of another key is still there
C14_Witness ==
    /\ last.op = "Remove"
    /\ prev.op = "Remove"
    /\ prev.user = last.user
    /\ prev.in = last.in
    /\ prev.existed
    /\ ~last.existed
    /\ last.err = Nil
    /\ contents # << >>

\* the entries saved in the namespace of a user under a content type and
\* not removed since
EntriesOf(userID, contentType) ==
    {e \in entries : e.user = userID /\ e.type = contentType}

\* C15: GetAll(contentType) returns, by content id, exactly the blobs saved
\* under that content type by the wallet of the calling user and not
\* removed since: none is missing, and no entry of another content type or
\* of another user is among them, whatever the other wallets have saved.
C15_GetAllNamespace ==
    last.op = "GetAll" =>
        /\ ~Failed(last.err)
        /\ DOMAIN last.out = {e.id : e \in EntriesOf(last.user, last.in.type)}
        /\ \A e \in EntriesOf(last.user, last.in.type) : last.out[e.id] = e.blob

\* a GetAll that returned an entry while the wallet of another user held
\* another blob under the same content type and id
C15_Witness ==
    /\ last.op = "GetAll"
    /\ \E id \in DOMAIN last.out :
           \E e \in entries : /\ e.user # last.user
                              /\ e.type = last.in.type
                              /\ e.id = id
                              /\ e.blob # last.out[id]

(***************************************************************************)
(* Claims about the proof engine.                                          *)
(***************************************************************************)
\* C16: Issue has no effect on the content store: whether it succeeds or
\* fails, the entries of the store and their bytes are after the call what
\* they were before it; the signed credential is returned, not kept.
C16_IssueKeepsStore ==
    [][StepOf("Issue") => contents' = contents]_vars

\* an Issue that returned a signed credential from a wallet whose store
\* holds an entry and no credential
C16_Witness ==
    /\ last.op = "Issue"
    /\ ~Failed(last.err)
    /\ Len(last.out.proofs) > 0
    /\ contents # << >>
    /\ Failed(contentsGet(last.user, "Credential", last.out.id).err)

\* the proof a successful Issue or Prove has attached: the last one of the
\* document it returned
AttachedProof == last.out.proofs[Len(last.out.proofs)]

\* what the last call, an Issue or a Prove, resolved the controller to when
\* it validated its proof options, and the document of it
Resolved == SawOf("Resolve")[1].got
ControllerDoc == Resolved.doc

\* C17: an Issue that is given neither proofType nor proofRepresentation
\* signs with Ed25519Signature2018 in the JWS representation: the one proof
\* it attaches has proofPurpose assertionMethod and, when no verification
\* method was given either, the first assertionMethod of the DID document
\* of the controller as its verificationMethod.
C17_IssueDefaults ==
    (/\ last.op = "Issue"
     /\ ~Failed(last.err)
     /\ last.in.options.ProofType = ""
     /\ last.in.options.ProofRepresentation = "") =>
        /\ Len(last.out.proofs) = Len(last.in.credential.json.proofs) + 1
        /\ AttachedProof.type = "Ed25519Signature2018"
        /\ AttachedProof.representation = SignatureJWS
        /\ AttachedProof.proofPurpose = "assertionMethod"
        /\ last.in.options.VerificationMethod = "" =>
               AttachedProof.verificationMethod = ControllerDoc.AssertionMethod[1]

\* an Issue with the defaults for a controller whose document has two
\* assertion methods: the proof names the first
C17_Witness ==
    /\ last.op = "Issue"
    /\ ~Failed(last.err)
    /\ last.in.options = ProofOptions("did:a", "", "", "")
    /\ Len(ControllerDoc.AssertionMethod) = 2
    /\ AttachedProof.verificationMethod = "did:a#k1"
    /\ AttachedProof.type = "Ed25519Signature2018"

\* the relationship the last call, an Issue or a Prove, signs for, and the
\* verification methods the DID document of the controller has for it
RequiredRelationship == IF last.op = "Issue" THEN AssertionMethod ELSE Authentication
RequiredMethods == ControllerDoc[RequiredRelationship]

\* C18: the verification method of Issue (assertionMethod) and of Prove
\* (authentication).  One that is given has to be the id of a method the
\* DID document of the controller has for the relationship: if it is not,
\* the call fails and returns nothing signed.  When none is given the
\* first method of the relationship is taken, and the call fails when the
\* document has no method for the relationship.
C18_VerificationMethod ==
    (/\ last.op \in {"Issue", "Prove"}
     /\ SawOf("Resolve") # << >>
     /\ ~Failed(Resolved.err)) =>
        LET given == last.in.options.VerificationMethod
            known == \E i \in 1..Len(RequiredMethods) : RequiredMethods[i] = given
        IN  /\ (given # "" /\ ~known) \/ (given = "" /\ RequiredMethods = << >>) =>
                   /\ Failed(last.err)
                   /\ last.out = NoOut
                   /\ Is(last.err, "failed to prepare proof") =>
                          Is(last.err, "VerificationMethodMismatch")
            /\ ~Failed(last.err) =>
                   AttachedProof.verificationMethod =
                       IF given = "" THEN RequiredMethods[1] ELSE given

\* a Prove, with the token of an open session, refused for a verification
\* method the document has for assertionMethod but not for authentication
C18_Witness ==
    /\ last.op = "Prove"
    /\ TokenValid(last.in.token)
    /\ last.in.options.VerificationMethod = "did:a#k1"
    /\ \E i \in 1..Len(ControllerDoc.AssertionMethod) :
           ControllerDoc.AssertionMethod[i] = "did:a#k1"
    /\ Is(last.err, "VerificationMethodMismatch")
    /\ last.out = NoOut

SupportedProofTypes == {Ed25519Signature2018, JSONWebSignature2020, BbsBlsSignature2020}

\* C19: an Issue or a Prove that asks for a proof type other than
\* Ed25519Signature2018, JsonWebSignature2020 and BbsBlsSignature2020 fails
\* and returns no document, so no proof is attached; when the call gets as
\* far as the choice of the signature suite (its input parses, its options
\* are valid and its token is that of an open session) the error is
\* UnsupportedSignatureType.  A proof that is attached is of one of the
\* three types.
C19_UnsupportedProofType ==
    last.op \in {"Issue", "Prove"} /\ last.in.options # NilOptions =>
        /\ last.in.options.ProofType \notin SupportedProofTypes \cup {""} =>
               /\ Failed(last.err)
               /\ last.out = NoOut
               /\ ReachedSigner /\ TokenValid(last.in.token) =>
                      Is(last.err, "UnsupportedSignatureType")
        /\ ~Failed(last.err) => AttachedProof.type \in SupportedProofTypes

\* a Prove for RsaSignature2018 with the token of an open session and
\* valid options, refused for the proof type
C19_Witness ==
    /\ last.op = "Prove"
    /\ last.in.options.ProofType = "RsaSignature2018"
    /\ ReachedSigner
    /\ TokenValid(last.in.token)
    /\ Is(last.err, "UnsupportedSignatureType")
    /\ last.out = NoOut

\* proof options that leave the verification method, the proof type and
\* the representation to the defaults
DefaultOptions(opts) ==
    /\ opts # NilOptions
    /\ opts.VerificationMethod = ""
    /\ opts.ProofType = ""
    /\ opts.ProofRepresentation = ""

\* the step is the return of the Verify, by the wallet of userID, of the
\* credential that an Issue has returned for default options, no other call
\* having returned since
VerifiesIssued(userID) ==
    /\ last.op = "Issue"
    /\ ~Failed(last.err)
    /\ DefaultOptions(last.in.options)
    /\ inflight' = IdleCall
    /\ last'.op = "Verify"
    /\ last'.user = userID
    /\ last'.in = VerificationOption("", Marshal(last.out), NoBlob)

\* the Verify that returns resolved the controller to the document the
\* Issue resolved it to: each key it fetched for a method of the controller
\* is the one that document gives
SameDocument ==
    \A i \in DOMAIN last'.saw :
        DIDOf(last'.saw[i].of) = last.in.options.Controller =>
            last'.saw[i].got = KeyOf(Resolved, last'.saw[i].of)

\* the key the Issue signed with is the one the document of the controller
\* publishes for the verification method of the proof
SignedWithPublishedKey ==
    /\ AttachedProof.verificationMethod \in DOMAIN ControllerDoc.keys
    /\ AttachedProof.signedWith = ControllerDoc.keys[AttachedProof.verificationMethod]

\* the proofs the credential carried into the Issue check against the keys
\* the Verify that returns fetched for them
CarriedProofsCheck ==
    \A i \in 1..Len(last.in.credential.json.proofs) :
        /\ i <= Len(last'.saw)
        /\ ~Failed(last'.saw[i].got.err)
        /\ last.out.proofs[i].signedWith = last'.saw[i].got.key
        /\ last.out.proofs[i].signedOver = Digest(last.out)

\* C20 as stated: a credential that Issue returned for default options is
\* accepted by a Verify whenever the controller resolves to the same
\* document and the KMS key has not changed between the two calls.
C20_IssueVerifyRoundTrip ==
    [][\A u \in Users : VerifiesIssued(u) /\ SameDocument => last'.out = TRUE]_vars

\* C20: a credential that Issue returned for default options is accepted by
\* a Verify that resolves the controller to the same document, provided
\* that the key the KMS holds for the chosen verification method is the
\* one the document publishes for it and that the proofs the credential
\* carried into Issue check as well.
C20_RoundTripOfSoundCredential ==
    [][\A u \in Users :
          (/\ VerifiesIssued(u)
           /\ SameDocument
           /\ SignedWithPublishedKey
           /\ CarriedProofsCheck)
             => last'.out = TRUE /\ last'.err = Nil]_vars

\* a credential with a proof of alice's key for the first assertion method
\* of did:a, accepted by the wallet of bob
C20_Witness ==
    /\ last.op = "Verify"
    /\ last.user = "bob"
    /\ last.out = TRUE
    /\ last.in.rawCredential.json.proofs # << >>
    /\ \A i \in 1..Len(last.in.rawCredential.json.proofs) :
           /\ last.in.rawCredential.json.proofs[i].type = "Ed25519Signature2018"
           /\ last.in.rawCredential.json.proofs[i].verificationMethod = "did:a#k1"
           /\ last.in.rawCredential.json.proofs[i].signedWith = KmsKeys["alice"]["k1"]


(***************************************************************************)
(* Claims about presentations and their verification.                      *)
(***************************************************************************)
\* the credentials the user has added under the id and not removed
AddedCredentials(userID, contentID) ==
    {e.blob.json : e \in {x \in entries : /\ x.user = userID
                                          /\ x.type = "Credential"
                                          /\ x.id = contentID}}

\* the credentials of a presentation, as a set
Presented(vp) == {vp.creds[i] : i \in 1..Len(vp.creds)}

\* C21: a Prove that succeeds returns a presentation that holds every
\* credential of the request (the ones stored under the ids asked for, the
\* raw ones, the parsed ones), whose holder is the controller of the proof
\* options and whose added proof has the purpose "authentication"; a Prove
\* asked for a stored id that is not in the store fails in the resolution
\* of the request and returns no presentation.  The ids are read in their
\* order, and each read returns what the store holds when it is made.
C21_ProvePresents ==
    /\ [](last.op = "Prove" =>
             LET opts == last.in.credentials
                 gets == SawOf("Get")
             IN
             /\ Len(gets) <= Len(opts.storedCredentials)
             /\ \A i \in DOMAIN gets : gets[i].of = opts.storedCredentials[i]
             /\ ~Failed(last.err) =>
                   /\ Len(gets) = Len(opts.storedCredentials)
                   /\ \A i \in DOMAIN gets :
                         /\ ~Failed(gets[i].got.err)
                         /\ gets[i].got.blob.json \in Presented(last.out)
                   /\ \A i \in 1..Len(opts.rawCredentials) :
                         opts.rawCredentials[i].json \in Presented(last.out)
                   /\ \A i \in 1..Len(opts.credentials) :
                         opts.credentials[i] \in Presented(last.out)
                   /\ last.out.holder = last.in.options.Controller
                   /\ last.out.proofs # << >>
                   /\ last.out.proofs[Len(last.out.proofs)].proofPurpose = "authentication"
             /\ (\E i \in DOMAIN gets : Failed(gets[i].got.err)) =>
                   /\ Failed(last.err)
                   /\ Head(last.err) = "failed to resolve credentials from request"
                   /\ last.out = NoOut)
    /\ [][\A i \in DOMAIN NewReads :
             inflight.op = "Prove" /\ NewReads[i].read = "Get" =>
                 Faithful(inflight.user, NewReads[i])]_vars

\* a Prove of a stored id, raw bytes and a parsed credential has returned
\* a presentation of the three
C21_Witness ==
    /\ last.op = "Prove"
    /\ ~Failed(last.err)
    /\ last.in.credentials.storedCredentials # << >>
    /\ last.in.credentials.rawCredentials # << >>
    /\ last.in.credentials.credentials # << >>
    /\ Len(last.out.creds) = 3
    /\ last.out.holder = "did:a"


\* what keeps the Prove that has returned from signing, going by its
\* request and by what its reads returned: a stored id that is not there or
\* is no credential, raw bytes that are no credential, proof options
\* without a controller, a controller that does not resolve or whose
\* document does not allow the verification method, a token that unlocks no
\* key manager, a proof type that is not supported, a key manager that does
\* not hold the key of the verification method
ProveCannotSign ==
    LET opts == last.in.credentials
        gets == SawOf("Get")
        resolves == SawOf("Resolve")
        signers == SawOf("Signer")
    IN  \/ \E i \in DOMAIN gets :
              \/ Failed(gets[i].got.err)
              \/ gets[i].got.blob.json.kind # "vc"
        \/ \E i \in 1..Len(opts.rawCredentials) : opts.rawCredentials[i].json.kind # "vc"
        \/ last.in.options = NilOptions
        \/ last.in.options.Controller = ""
        \/ /\ resolves # << >>
           /\ \/ Failed(resolves[1].got.err)
              \/ Failed(validateVerificationMethod(resolves[1].got.doc, last.in.options,
                                                   Authentication).err)
        \/ /\ signers # << >>
           /\ \/ Failed(signers[1].got.err)
              \/ last.in.options.ProofType \notin SupportedProofTypes \cup {""}
              \/ KeyIDOf(signers[1].got.signer.key)
                     \notin DOMAIN KmsKeys[signers[1].got.signer.kms]

\* the credentials of a presentation that Verify rejects
Unverified(userID, vp) ==
    {c \in Presented(vp) :
        ~VerifyAlone(userID, VerificationOption("", Marshal(c), NoBlob)).out}

\* C22: Prove does not verify what it presents.  A Prove whose request
\* resolves and that can sign succeeds whether the credentials verify or
\* not, and the presentation holds every credential asked for, the ones
\* Verify rejects included: only Verify tells that one of them is bad.
C22_ProveDoesNotVerify ==
    (last.op = "Prove" /\ ~ProveCannotSign) =>
        /\ ~Failed(last.err)
        /\ \A i \in DOMAIN SawOf("Get") :
              SawOf("Get")[i].got.blob.json \in Presented(last.out)
        /\ \A i \in 1..Len(last.in.credentials.rawCredentials) :
              last.in.credentials.rawCredentials[i].json \in Presented(last.out)
        /\ Unverified(last.user, last.out) # {} =>
              ~VerifyAlone(last.user, VerificationOption("", NoBlob, Marshal(last.out))).out

\* a Prove has presented the stored credential c1 although its proof does
\* not check, and the presentation does not verify
C22_Witness ==
    /\ last.op = "Prove"
    /\ ~Failed(last.err)
    /\ last.in.credentials.storedCredentials = <<"c1", "c2">>
    /\ TamperedVC \in Unverified(last.user, last.out)
    /\ ~VerifyAlone(last.user, VerificationOption("", NoBlob, Marshal(last.out))).out


(***************************************************************************)
(* Claims about the BBS+ context.                                          *)
(***************************************************************************)
\* how many times the context list names the context
RECURSIVE CountContext(_, _)
CountContext(contexts, context) ==
    IF contexts = << >>
    THEN 0
    ELSE (IF Head(contexts) = context THEN 1 ELSE 0) + CountContext(Tail(contexts), context)

\* the last call is an Issue with BbsBlsSignature2020 that returned a
\* credential
IssuedWithBbs ==
    /\ last.op = "Issue"
    /\ ~Failed(last.err)
    /\ last.in.options.ProofType = BbsBlsSignature2020

\* C23: the credential a BBS+ issuance returns names the BBS context
\* exactly once, whether the @context of the input named it or not: the
\* context is appended to an input that does not name it, and the @context
\* of an input that names it is returned as it was.
C23_BbsContextExactlyOnce ==
    IssuedWithBbs =>
        LET input == last.in.credential.json.context IN
        /\ CountContext(last.out.context, bbsContext) = 1
        /\ CountContext(input, bbsContext) = 0 => last.out.context = Append(input, bbsContext)
        /\ CountContext(input, bbsContext) >= 1 => last.out.context = input

\* a credential issued with BBS+, whose @context therefore names the BBS
\* context, has been issued with BBS+ once more and names it once
C23_Witness ==
    /\ IssuedWithBbs
    /\ Len(last.out.proofs) = 2
    /\ last.in.credential.json.context = <<baseContext, bbsContext>>
    /\ last.out.context = <<baseContext, bbsContext>>


\* the proof of the document checks against the key fetched for it
ProofChecks(json, proof, fetched) ==
    /\ ~Failed(fetched.err)
    /\ proof.signedWith = fetched.key
    /\ proof.signedOver = Digest(json)

\* the proofs of a document, each with its document and what the document
\* is: 0 for the presentation, n for its n-th credential
ProofsOf(json, n) ==
    [i \in 1..Len(json.proofs) |-> [json |-> json, proof |-> json.proofs[i], cred |-> n]]

\* the proofs of the credentials of a presentation from the n-th on, in the
\* order of the presentation
RECURSIVE CredentialProofs(_, _)
CredentialProofs(vp, n) ==
    IF n > Len(vp.creds)
    THEN << >>
    ELSE ProofsOf(vp.creds[n], n) \o CredentialProofs(vp, n + 1)

\* the proofs a Verify of the presentation has to check, in order: its
\* own, then those of each credential
ProofsInOrder(vp) == ProofsOf(vp, 0) \o CredentialProofs(vp, 1)

\* the last call is a Verify of a raw presentation
VerifiedPresentation ==
    /\ last.op = "Verify"
    /\ last.in.credentialID = ""
    /\ last.in.rawCredential = NoBlob
    /\ last.in.rawPresentation # NoBlob
    /\ last.in.rawPresentation.json.kind = "vp"

\* C24: Verify of a presentation returns true, without an error, exactly
\* when the proofs of the presentation and of every embedded credential
\* check, and false with an error otherwise; when the proof of the
\* presentation fails no credential is looked at, and when credentials
\* fail the error is that of the first of them in the order of the
\* presentation.  The proofs are checked in that order, each against the
\* key the store gives when it is checked, up to the first that fails.
C24_VerifyPresentation ==
    /\ [](VerifiedPresentation =>
             LET vp == last.in.rawPresentation.json
                 todo == ProofsInOrder(vp)
                 keys == SawOf("Key")
                 n == Len(keys)
                 checks(i) == ProofChecks(todo[i].json, todo[i].proof, keys[i].got)
                 parses == \A c \in 1..Len(vp.creds) : vp.creds[c].kind = "vc"
             IN  /\ keys = last.saw
                 /\ n <= Len(todo)
                 /\ \A i \in 1..n : keys[i].of = todo[i].proof.verificationMethod
                 /\ \A i \in 1..(n - 1) : checks(i)
                 /\ last.out = ~Failed(last.err)
                 /\ parses => last.out = (n = Len(todo) /\ \A i \in 1..n : checks(i))
                 /\ ~last.out => Head(last.err) = "presentation verification failed"
                 /\ (n > 0 /\ ~checks(n)) =>
                       IF todo[n].cred = 0
                       THEN ~Is(last.err, "credential verification failed")
                       ELSE /\ Is(last.err, "credential verification failed")
                            /\ \A i \in 1..(n - 1) : todo[i].cred <= todo[n].cred)
    /\ [][\A i \in DOMAIN NewReads :
             inflight.op = "Verify" /\ inflight.in.rawPresentation # NoBlob =>
                 Faithful(inflight.user, NewReads[i])]_vars

\* the embedded credentials of the presentation whose proofs do not all
\* check against the keys the store gives now
BadCredentials(userID, vp) ==
    {i \in 1..Len(vp.creds) :
        ~VerifyAlone(userID, VerificationOption("", Marshal(vp.creds[i]), NoBlob)).out}

\* Verify of a presentation whose second credential names a DID that
\* does not resolve and whose third has a proof that does not check has
\* returned false with the error of the second
C24_Witness ==
    /\ VerifiedPresentation
    /\ BadCredentials(last.user, last.in.rawPresentation.json) = {2, 3}
    /\ last.in.rawPresentation.json.creds[3] = TamperedVC
    /\ last.out = FALSE
    /\ Is(last.err, "DIDNotResolvable")


\* C25: Verify is read-only.  Whatever it is asked (a stored credential
\* id, a raw credential, a raw presentation, nothing) and whatever it
\* returns, the content store, the profile store and the session registry
\* are after the call what they were before it.
C25_VerifyReadOnly ==
    [][StepOf("Verify") =>
          /\ contents' = contents
          /\ profiles' = profiles
          /\ sessions' = sessions
          /\ nextToken' = nextToken
          /\ nextUUID' = nextUUID]_vars

\* Verify of the stored credential c1, whose proof does not check, has
\* returned false in a wallet that has a session, and the credential is
\* still in the store
C25_Witness ==
    /\ last.op = "Verify"
    /\ last.in.credentialID = "c1"
    /\ last.out = FALSE
    /\ Is(last.err, "ProofFailed")
    /\ Live(last.user)
    /\ ~Failed(contentsGet(last.user, "Credential", "c1").err)


(***************************************************************************)
(* Claims about the query engine.                                          *)
(***************************************************************************)
\* the credentials the user has added and not removed that the query
\* selects
Selected(userID, param) ==
    {e.blob.json : e \in {x \in entries : /\ x.user = userID
                                          /\ x.type = "Credential"
                                          /\ x.blob.json.type = param.Query}}

\* every query of the call is of a supported dialect
SupportedQueries(params) ==
    \A i \in 1..Len(params) : params[i].Type \in QueryDialects

\* C27: a Query of supported dialects returns one presentation for each of
\* its queries, in the order of the queries; each holds what its own query
\* selects from the credentials stored when the call is made, whatever the
\* other queries of the call select, and a query that selects nothing
\* gives an empty presentation and no error.
C27_QueryPerDialect ==
    (last.op = "Query" /\ SupportedQueries(last.in)) =>
        /\ ~Failed(last.err)
        /\ Len(last.out) = Len(last.in)
        /\ \A i \in 1..Len(last.in) : last.out[i] = Selected(last.user, last.in[i])

\* a Query of three queries has returned three presentations: the second
\* is empty, the first and the third hold one credential each, not the
\* same one
C27_Witness ==
    /\ last.op = "Query"
    /\ ~Failed(last.err)
    /\ Len(last.in) = 3
    /\ Len(last.out) = 3
    /\ last.out[1] = {OtherVC}
    /\ last.out[2] = {}
    /\ last.out[3] = {SignedVC}


(***************************************************************************)
(* Claims about DID resolution.                                            *)
(***************************************************************************)
\* C28: the DID of the controller of an Issue or a Prove resolves to the
\* document of the DID resolution response stored for it when there is
\* one, whatever the external VDR would answer, and to the answer of the
\* external VDR when none is stored, be it that none was ever added or
\* that the one added was removed.  The document resolved to shows in the
\* outcome: the call fails with the error of the external VDR only when
\* none is stored, and the verification method it signs with by default is
\* the first one of that document.
C28_ResolutionPrecedence ==
    /\ [][\A i \in DOMAIN NewReads :
             NewReads[i].read = "Resolve" =>
                 NewReads[i].got = SavedResolve(inflight.user, NewReads[i].of)]_vars
    /\ []((/\ last.op \in {"Issue", "Prove"}
           /\ last.in.options.VerificationMethod = "") =>
              /\ SawOf("Resolve") # << >>
              /\ Resolved.err \in {Nil, Err("DIDNotResolvable")}
              /\ Failed(Resolved.err) => Is(last.err, "DIDNotResolvable")
              /\ ~Failed(Resolved.err) =>
                    /\ ~Is(last.err, "DIDNotResolvable")
                    /\ Resolved.doc[RequiredRelationship] = << >> =>
                          Is(last.err, "VerificationMethodMismatch")
                    /\ Resolved.doc[RequiredRelationship] # << >> =>
                          ~Is(last.err, "VerificationMethodMismatch")
                    /\ ~Failed(last.err) =>
                          AttachedProof.verificationMethod
                              = Resolved.doc[RequiredRelationship][1])

\* an Issue for did:a right after the response stored for did:a was
\* removed has signed with the first assertion method of the document of
\* the external VDR
C28_Witness ==
    /\ last.op = "Issue"
    /\ ~Failed(last.err)
    /\ prev.op = "Remove"
    /\ prev.existed
    /\ prev.in = [type |-> "DIDResolutionResponse", id |-> "did:a"]
    /\ AttachedProof.verificationMethod = "did:a#k1"


(***************************************************************************)
(* Claims about the registry under concurrent calls.                       *)
(***************************************************************************)
\* the threads that hold the mutex or are between the two writes
InRegistry == {t \in Threads : registry.pc[t] \in {"locked", "written"}}

\* C29: createKeyManager and removeKeyManager are atomic under concurrent
\* calls.  At most one thread is inside the registry; a resolveSigner that
\* starts after a createKeyManager returned its token, with no Close and
\* no other Open of that user since or meanwhile, gets a signer; one that
\* starts after a removeKeyManager removed the entry of its token gets
\* none; no resolveSigner finds an entry that is half written, and none is
\* left in the map when every call has returned.
C29_RegistryAtomic ==
    /\ Cardinality(InRegistry) <= 1
    /\ \A t \in Threads :
          registry.res[t].op = "resolveSigner" =>
              /\ registry.res[t].expect = "ok" => registry.res[t].ok
              /\ registry.res[t].expect = "fail" => ~registry.res[t].ok
              /\ ~registry.res[t].partial
    /\ (\A t \in Threads : registry.pc[t] = "idle") =>
          \A u \in Users : sessions[u] = NoSession \/ Complete(sessions[u])

\* a resolveSigner that started after the createKeyManager of its token
\* had returned has got a signer, with the other thread waiting for the
\* mutex in a call of its own
C29_Witness ==
    /\ registry.res["t2"].op = "resolveSigner"
    /\ registry.res["t2"].expect = "ok"
    /\ registry.res["t2"].ok
    /\ registry.res["t2"].token = registry.current["alice"]
    /\ registry.pc["t1"] = "wait"


(***************************************************************************)
(* Claims about the DID exchange service.                                  *)
(***************************************************************************)
\* C30: only one channel is registered for the action events at a time.
\* RegisterActionEvent with a channel registered fails and the channel that
\* was registered stays; with none registered it registers its channel.
\* UnregisterActionEvent with a channel that is not the registered one
\* fails and changes nothing; with the registered one it leaves none
\* registered.  A step that registers or unregisters for the message
\* events leaves the registration alone.
C30_OneActionChannel ==
    [][IF service'.unregister # service.unregister \/ service'.msgEvents # service.msgEvents
       THEN service'.actionEvent = service.actionEvent
       ELSE /\ last'.op = "RegisterActionEvent" =>
                 IF service.actionEvent # NilChannel
                 THEN Failed(last'.err) /\ service'.actionEvent = service.actionEvent
                 ELSE ~Failed(last'.err) /\ service'.actionEvent = last'.in
            /\ last'.op = "UnregisterActionEvent" =>
                 IF last'.in # service.actionEvent
                 THEN Failed(last'.err) /\ service'.actionEvent = service.actionEvent
                 ELSE ~Failed(last'.err) /\ service'.actionEvent = NilChannel]_vars

\* RegisterActionEvent of a second channel has failed and the first is
\* still the one registered
C30_Witness ==
    /\ last.op = "RegisterActionEvent"
    /\ last.in = "ch2"
    /\ Is(last.err, "channel is already registered for the action event")
    /\ service.actionEvent = "ch1"


(***************************************************************************)
(* Claims about the DID exchange protocol.                                 *)
(***************************************************************************)
\* the steps of a trace that execute or persist a state
Advances(trace) == {i \in DOMAIN trace : trace[i].step \in {"Execute", "Persist", "Action"}}

\* the action events a trace sent
ActionEvents(trace) == {i \in DOMAIN trace : trace[i].step = "ActionEvent"}

\* the states the store keeps for the threads: what is left of the store
\* without the messages kept for a callback
ThreadStates(store) ==
    [k \in DOMAIN store \ MessageIDs |-> store[k]]

\* the goroutine g takes a step of its call between the service before and
\* after; the trace of its call after the step, which is in the call
\* record (call) when the step returned
Moves(g, before, after) ==
    before.procs[g].pc # "idle" /\ after.procs[g].pc # before.procs[g].pc
ReturnsFrom(g, before, after) ==
    before.procs[g].pc # "idle" /\ after.procs[g].pc = "idle"
TraceAfter(g, after, call) ==
    IF after.procs[g].pc = "idle" THEN call.out.trace ELSE after.procs[g].trace

\* what the step of g added to the trace of its call
AddedBy(g, before, after, call) ==
    SubSeq(TraceAfter(g, after, call), Len(before.procs[g].trace) + 1,
           Len(TraceAfter(g, after, call)))

\* the goroutine g persists a state in the step
Persists(g, before, after, call) ==
    /\ before.procs[g].pc = "update"
    /\ Moves(g, before, after)
    /\ \E i \in DOMAIN AddedBy(g, before, after, call) :
          AddedBy(g, before, after, call)[i].step = "Persist"

\* the goroutine g is in a Handle of an inbound request, response or ack
\* that has passed the checks and sent the PreState event: sendActionEvent
\* is what it does next
InSendActionEvent(g, svc) == svc.procs[g].pc \in {"Put", "aEvent"}

\* C31 as stated: for an inbound request, response or ack that passes the
\* transition check, Handle sends exactly one action event and returns
\* without executing or persisting the state; a state is executed and
\* persisted for the message only after its Continue was invoked, and
\* never once its Stop was invoked.
C31_HandleSendsOneActionEvent ==
    [][\A g \in Goroutines :
          /\ (InSendActionEvent(g, service) /\ ReturnsFrom(g, service, service')) =>
                /\ Cardinality(ActionEvents(last'.out.trace)) = 1
                /\ Advances(last'.out.trace) = {}
          /\ (Persists(g, service, service', last') /\ service.procs[g].op = "process") =>
                /\ service.procs[g].id \in DOMAIN service.answers
                /\ service.answers[service.procs[g].id] = {"Continue"}]_vars

\* the listener takes a message from the callback channel in the step
Takes(before, after) ==
    /\ before.callbackChannel # << >>
    /\ after.callbackChannel = Tail(before.callbackChannel)

\* C31 amended: such a Handle sends the PreState event and keeps the
\* message under a new id; when the message is kept it sends exactly one
\* action event, on the channel it read when it began, and returns without
\* error and without executing or persisting the state; when keeping it
\* fails it returns an error (send events failed) and sends no action
\* event.  The states of the threads change only where handle persists a
\* state: in the listener, or in a Handle for which no action event is
\* due.  The listener handles the kept message once for every callback
\* message without error (every Continue and every Stop with a nil
\* error, also repeated ones) and drops a callback message with an error
\* (Stop with an error) without a change of the store.
C31_ActionEventDefersState ==
    [][/\ \A g \in Goroutines :
             /\ (InSendActionEvent(g, service) /\ ReturnsFrom(g, service, service')) =>
                   /\ last'.op = "Handle"
                   /\ Advances(last'.out.trace) = {}
                   /\ ThreadStates(service'.store) = ThreadStates(service.store)
                   /\ service'.callbackChannel = service.callbackChannel
                   /\ IF last'.err = Nil
                      THEN /\ Len(last'.out.trace) = 3
                           /\ last'.out.trace[1].step = "PreState"
                           /\ last'.out.trace[2] = Step("Put", service.procs[g].id)
                           /\ last'.out.trace[3] =
                                 StateMsg("ActionEvent", service.procs[g].id,
                                          <<service.procs[g].aEvent>>)
                           /\ service.procs[g].aEvent # NilChannel
                           /\ service.procs[g].id \notin service.actions
                           /\ service'.actions = service.actions \cup {service.procs[g].id}
                           /\ service'.store[service.procs[g].id] =
                                 message(last'.in, last'.in.thid,
                                         stateFromMsgType(last'.in.Type).state)
                      ELSE /\ Is(last'.err, "send events failed")
                           /\ ActionEvents(last'.out.trace) = {}
                           /\ Len(last'.out.trace) = 1
                           /\ service'.actions = service.actions
                           /\ service'.store = service.store
             /\ Persists(g, service, service', last') =>
                   \/ service.procs[g].op = "process"
                   \/ /\ service.procs[g].op = "Handle"
                      /\ \/ service.procs[g].msg.Outbound
                         \/ ~canTriggerActionEvents(service.procs[g].msg.Type)
       /\ ThreadStates(service'.store) # ThreadStates(service.store) =>
             \E g \in Goroutines : Persists(g, service, service', last')
       /\ Takes(service, service') =>
             IF Failed(Head(service.callbackChannel).Err)
             THEN /\ last' = Call("process", "", Head(service.callbackChannel), Nil,
                                  [trace |-> << >>])
                  /\ service'.store = service.store
                  /\ service'.procs = service.procs
             ELSE \/ /\ service'.procs[Listener].pc = "snapshot"
                     /\ service'.procs[Listener].id = Head(service.callbackChannel).ID
                     /\ message(service'.procs[Listener].msg,
                                service'.procs[Listener].thid,
                                service'.procs[Listener].next) =
                           service.store[Head(service.callbackChannel).ID]
                  \/ /\ last'.op = "process"
                     /\ last'.in = Head(service.callbackChannel)
                     /\ Is(last'.err, "document for the id doesn't exists in the database")
                     /\ last'.out.trace = << >>
                     /\ service'.store = service.store
                     /\ service'.procs = service.procs
       /\ service'.callbacks = service.callbacks + 1 =>
             /\ last'.op \in {"Continue", "Stop"}
             /\ service'.callbackChannel =
                   Append(service.callbackChannel,
                          IF last'.op = "Continue" THEN [ID |-> last'.in, Err |-> Nil]
                          ELSE last'.in)
      ]_vars

\* the listener, after a Continue, took the thread to responded, and a
\* second message of the thread, stopped with an error, was dropped
C31_Witness ==
    /\ last.op = "process"
    /\ Failed(last.in.Err)
    /\ last.out.trace = << >>
    /\ "th1" \in DOMAIN service.store
    /\ service.store["th1"] = "responded"
    /\ last.in.ID \in DOMAIN service.answers
    /\ service.answers[last.in.ID] = {"Stop"}
    /\ \E id \in DOMAIN service.answers : service.answers[id] = {"Continue"}
    /\ Cardinality(service.actions) = 2

\* a Handle begins in the step, with the message msg: it returns at once
\* or the goroutine g goes on with it
HandleBegins(before, after) == after.messages = before.messages + 1
Begins(g, before, after) == before.procs[g].pc = "idle" /\ after.procs[g].pc = "Handle"
BegunMsg(before, after, call) ==
    IF \E g \in Callers : Begins(g, before, after)
    THEN after.procs[CHOOSE g \in Callers : Begins(g, before, after)].msg
    ELSE call.in

\* the goroutine g is at the checks of Handle and the thread of its
\* message cannot go from the state it is in to the state of the message
TransitionRefused(g, svc) ==
    /\ svc.procs[g].pc = "Handle"
    /\ ~Failed(stateFromMsgType(svc.procs[g].msg.Type).err)
    /\ ~CanTransitionTo(currentState(svc.store, svc.procs[g].thid),
                        stateFromMsgType(svc.procs[g].msg.Type).state)

\* the service but for its goroutines and the count of the calls
Kept(svc) ==
    [actionEvent |-> svc.actionEvent, msgEvents |-> svc.msgEvents, store |-> svc.store,
     nextID |-> svc.nextID, actions |-> svc.actions,
     callbackChannel |-> svc.callbackChannel]

\* C37: a Handle of an inbound message that finds no channel registered
\* for the action events, and a Handle whose checks find that the thread
\* cannot go to the state of the message, returns an error in that very
\* step, having sent no message event and no action event (its trace is
\* empty), and the step leaves the store, the states of the threads with
\* it, the action events and the callback channel as they were.
C37_HandleRejectsWithoutEffect ==
    [][/\ (/\ HandleBegins(service, service')
           /\ ~BegunMsg(service, service', last').Outbound
           /\ service.actionEvent = NilChannel) =>
             /\ last' = Call("Handle", "", BegunMsg(service, service', last'),
                             Err("no clients are registered to handle the message"),
                             [trace |-> << >>])
             /\ service'.procs = service.procs
             /\ Kept(service') = Kept(service)
       /\ \A g \in Callers :
             (TransitionRefused(g, service) /\ Moves(g, service, service')) =>
                /\ service'.procs[g] = IdleFrame
                /\ last'.op = "Handle"
                /\ last'.in = service.procs[g].msg
                /\ Is(last'.err,
                      "invalid state transition: "
                          \o currentState(service.store, service.procs[g].thid)
                          \o " -> " \o stateFromMsgType(service.procs[g].msg.Type).state)
                /\ last'.out.trace = << >>
                /\ Kept(service') = Kept(service)
      ]_vars

\* a second request of a thread was refused when the thread had responded,
\* with the action event of the first still callable
C37_Witness ==
    /\ last.op = "Handle"
    /\ last.in = DIDCommMsg(ConnectionRequest, FALSE, "th1")
    /\ last.err = Err("invalid state transition: responded -> requested")
    /\ last.out.trace = << >>
    /\ service.actions # {}
    /\ service.store["th1"] = "responded"

\* the goroutine g is inside handle: at the events of a state or between
\* them
InHandle(g, svc) ==
    /\ svc.procs[g].pc \in {"snapshot", "send", "update"}
    /\ svc.procs[g].at \in {"Pre", "Post"}

\* what handle did in a call (Handle sends a PreState event of its own
\* first) and the error handle returned (process wraps it)
HandleSteps(call) == IF call.op = "Handle" THEN Tail(call.out.trace) ELSE call.out.trace
HandleErr(call) ==
    IF call.op = "process" /\ Failed(call.err) THEN Tail(call.err) ELSE call.err

\* the five steps handle takes for one state, in their order
StateSteps == <<"PreState", "Execute", "Persist", "Action", "PostState">>

\* the steps of the call that returns are those of handle in their order;
\* frame is what the goroutine held before the step that returned, before
\* and after are the service before and after that step
StepOrder(call, frame, before, after) ==
    LET t == HandleSteps(call)
        err == HandleErr(call)
        full == Len(t) \div 5
        rest == Len(t) % 5
        stateAt(b) == t[5 * b + 1].state
        failedState == stateAt(full)
    IN /\ Len(t) > 0
       /\ \A i \in DOMAIN t :
             /\ t[i].step = StateSteps[((i - 1) % 5) + 1]
             /\ t[i].state = stateAt((i - 1) \div 5)
       /\ stateAt(0) = stateFromMsgType(frame.msg.Type).state
       /\ \A b \in 0..(full - 1) :
             Execute(stateAt(b), frame.msg).followup =
                IF 5 * (b + 1) < Len(t) THEN stateAt(b + 1) ELSE "noop"
       /\ rest = 0 => err = Nil
       /\ rest # 0 =>
             /\ rest \in {1, 2, 3}
             /\ Failed(err)
             /\ Head(err) =
                   CASE rest = 1 -> "failed to execute state " \o failedState
                     [] rest = 2 -> "failed to persist state " \o failedState
                     [] rest = 3 -> "failed to execute state action " \o failedState
             /\ rest = 3 => after.store[frame.thid] = failedState
             /\ rest \in {1, 2} => after.store = before.store

\* C38: handle takes, state by state, the steps PreState event, execute,
\* persist, action, PostState event, then goes to the state that follows,
\* until the no-op state.  When the execution, the persistence or the action
\* of a state fails, handle stops there with the error of that step: no
\* PostState event of that state, nothing of a state that follows; the
\* state is in the store when only its action failed, and the store is
\* left as it was when its execution or its persistence failed.  The step
\* that persists a state writes it in the store for the thread.
C38_HandleStepOrder ==
    [][\A g \in Goroutines :
          /\ (InHandle(g, service) /\ ReturnsFrom(g, service, service')) =>
                StepOrder(last', service.procs[g], service, service')
          /\ Persists(g, service, service', last') =>
                service'.store[service.procs[g].thid] = service.procs[g].next]_vars

\* an invitation arrived: handle took the five steps of invited, with a
\* consumer of the message events, and stopped in requested, whose action
\* failed: requested is in the store and no PostState event was sent for it
C38_Witness ==
    /\ last.op = "Handle"
    /\ last.in.Type = ConnectionInvite
    /\ Len(last.out.trace) = 9
    /\ last.out.trace[2] = StateMsg("PreState", "invited", <<"ch1">>)
    /\ last.out.trace[6] = StateMsg("PostState", "invited", << >>)
    /\ last.out.trace[9] = Step("Persist", "requested")
    /\ Is(last.err, "failed to execute state action requested")
    /\ service.store[RandomID(1)] = "requested"

\* C39: every state persisted for a thread is a valid transition from the
\* state the store holds for the thread when it is persisted, that is from
\* the state persisted immediately before it, whatever Handle calls and
\* callbacks came in between.
C39_PersistedTransitionsValid ==
    [][\A g \in Goroutines :
          Persists(g, service, service', last') =>
             CanTransitionTo(currentState(service.store, service.procs[g].thid),
                             service.procs[g].next)]_vars

(***************************************************************************)
(* Claims about the did:key method.                                        *)
(***************************************************************************)
\* C32: a Create whose options carry a KeyType value does not need a
\* verification method in the document: it succeeds on an empty list, and
\* the document it returns names a verification method of a new key.
C32_CreateWithKeyType ==
    (/\ last.op = "Create"
     /\ last.in.opts.KeyType # ""
     /\ last.in.opts.EncryptionKey = NoEncryptionKey
     /\ Len(last.in.didDoc.VerificationMethod) = 0)
        => /\ ~Failed(last.err)
           /\ Len(last.out.VerificationMethod) = 1


(***************************************************************************)
(* Claims about the issue-credential client.                               *)
(***************************************************************************)
\* the error and the message type that go with a call of the client
EmptyError(op) ==
    CASE op = "SendOffer" -> "errEmptyOffer"
      [] op = "SendProposal" -> "errEmptyProposal"
      [] op = "SendRequest" -> "errEmptyRequest"
MsgTypeOf(op) ==
    CASE op = "SendOffer" -> OfferCredentialMsgType
      [] op = "SendProposal" -> ProposeCredentialMsgType
      [] op = "SendRequest" -> RequestCredentialMsgType

\* C33: SendOffer, SendProposal and SendRequest with a nil message return an
\* empty piid and their own empty-message error and do not call
\* HandleOutbound; with a message they call HandleOutbound once, with a
\* message of the type of the call and the two DIDs given, and return what
\* it returns.
C33_SendNilMessage ==
    last.op \in ClientOps =>
        IF last.in.msg = NilMessage
        THEN /\ last.out.piid = ""
             /\ last.err = Err(EmptyError(last.op))
             /\ last.out.calls = << >>
        ELSE /\ Len(last.out.calls) = 1
             /\ last.out.calls[1].msg.Type = MsgTypeOf(last.op)
             /\ last.out.calls[1].msg.Comment = last.in.msg.Comment
             /\ last.out.calls[1].myDID = last.in.myDID
             /\ last.out.calls[1].theirDID = last.in.theirDID
             /\ last.out.piid = last.in.answer.piid
             /\ last.err = last.in.answer.err

\* a nil offer was refused although the service would have answered
C33_Witness ==
    /\ last.op = "SendOffer"
    /\ last.in.msg = NilMessage
    /\ last.in.answer = Answer("piid", Nil)
    /\ last.err = Err("errEmptyOffer")
    /\ last.out.calls = << >>


(***************************************************************************)
(* Claims about the order of the checks of Issue.                          *)
(***************************************************************************)
\* the steps of the Issue that has just returned, each looked at on its
\* own: whether it fails, going by the request, by what the controller was
\* resolved to and by the registry as the call leaves it
ParseFails == last.in.credential.json.kind # "vc"
ControllerMissing == last.in.options = NilOptions \/ last.in.options.Controller = ""
ControllerUnresolved ==
    ~ControllerMissing /\ SawOf("Resolve") # << >> /\ Failed(Resolved.err)
MethodInvalid ==
    /\ ~ControllerMissing
    /\ SawOf("Resolve") # << >>
    /\ ~Failed(Resolved.err)
    /\ Failed(validateVerificationMethod(Resolved.doc, last.in.options, AssertionMethod).err)
TokenInvalid == ~TokenValid(last.in.token)
TypeUnsupported ==
    /\ ~ControllerMissing
    /\ last.in.options.ProofType \notin
          {"", Ed25519Signature2018, JSONWebSignature2020, BbsBlsSignature2020}

\* the error of the first step that fails, in the order parse, options
\* (controller, resolution, verification method), signer, proof type
FirstFailure ==
    CASE ParseFails -> Wrap("failed to parse credential", Err("ParseError"))
      [] ControllerMissing -> Wrap("failed to prepare proof", Err("InvalidProofOption"))
      [] ControllerUnresolved -> Wrap("failed to prepare proof", Err("DIDNotResolvable"))
      [] MethodInvalid -> Wrap("failed to prepare proof", Err("VerificationMethodMismatch"))
      [] TokenInvalid -> Wrap("failed to issue credential", Err("InvalidAuthToken"))
      [] TypeUnsupported ->
            Wrap("failed to issue credential", Err("UnsupportedSignatureType"))
      [] OTHER -> Nil

\* C34: Issue returns the error of the first failing step in the order
\* parse, proof options (controller present, controller resolves,
\* verification method valid for assertionMethod), signer from the token,
\* proof type; it returns a credential only when no step fails.
C34_IssueCheckOrder ==
    last.op = "Issue" =>
        /\ last.err = FirstFailure
        /\ (~ParseFails /\ ~ControllerMissing) <=> SawOf("Resolve") # << >>
        /\ (~ParseFails /\ ~ControllerMissing /\ ~ControllerUnresolved /\ ~MethodInvalid)
              <=> SawOf("Signer") # << >>
        /\ Failed(last.err) => last.out = NoOut
        /\ ~Failed(last.err) => Len(last.out.proofs) = Len(last.in.credential.json.proofs) + 1

\* an Issue with a token of no session and an unsupported proof type, its
\* options valid otherwise: InvalidAuthToken, not UnsupportedSignatureType
C34_Witness ==
    /\ last.op = "Issue"
    /\ ~ParseFails /\ ~ControllerMissing /\ ~ControllerUnresolved /\ ~MethodInvalid
    /\ TokenInvalid
    /\ TypeUnsupported
    /\ Is(last.err, "InvalidAuthToken")
    /\ ~Is(last.err, "UnsupportedSignatureType")


(***************************************************************************)
(* Claims about the document that is signed.                               *)
(***************************************************************************)
\* the document the call that has just returned was to sign, as it was
\* before the signing pipeline: the credential handed to Issue, the
\* presentation handed to Prove or the fresh one
SigningTarget ==
    IF last.op = "Issue"
    THEN last.in.credential.json
    ELSE IF last.in.credentials.presentation # NoPresentation
    THEN last.in.credentials.presentation
    ELSE NewPresentation(<< >>)

\* the call signed with BBS+
SignedWithBbs ==
    /\ last.op \in {"Issue", "Prove"}
    /\ ~Failed(last.err)
    /\ last.out.proofs[Len(last.out.proofs)].type = BbsBlsSignature2020

\* C35: when Issue or Prove signs with BbsBlsSignature2020, the @context of
\* the document that was signed (the credential of Issue, the presentation
\* of Prove) names the BBS context: it is appended when the document did
\* not name it and is not added a second time when it did.
C35_BbsContextOnTarget ==
    SignedWithBbs /\ CountContext(SigningTarget.context, bbsContext) <= 1 =>
        CountContext(last.out.context, bbsContext) = 1

\* the credentials the Prove read from the store, in the order of its reads
StoredInOrder == [i \in DOMAIN SawOf("Get") |-> SawOf("Get")[i].got.blob.json]

\* the raw credentials parsed, in their order
ParsedInOrder(raws) == [i \in 1..Len(raws) |-> raws[i].json]

\* the credentials the request of a Prove resolves to: stored ids, then raw
\* credentials, then parsed credentials
ResolvedCredentials(call) ==
    StoredInOrder
        \o ParsedInOrder(call.in.credentials.rawCredentials)
        \o call.in.credentials.credentials

\* C36: a Prove that succeeds with a presentation supplied by the caller
\* returns that presentation with the resolved credentials appended after
\* the credentials it already held, one proof added to the proofs it had;
\* without a supplied presentation it returns a fresh presentation that
\* holds exactly the resolved credentials, in the order stored ids, raw
\* credentials, parsed credentials, with one proof.
C36_ProveAppends ==
    last.op = "Prove" /\ ~Failed(last.err) =>
        LET given == last.in.credentials.presentation IN
        /\ [i \in DOMAIN SawOf("Get") |-> SawOf("Get")[i].of]
              = last.in.credentials.storedCredentials
        /\ IF given # NoPresentation
           THEN /\ last.out.creds = given.creds \o ResolvedCredentials(last)
                /\ Len(last.out.proofs) = Len(given.proofs) + 1
                /\ SubSeq(last.out.proofs, 1, Len(given.proofs)) = given.proofs
                /\ last.out.type = given.type
                /\ last.out.context = given.context
           ELSE /\ last.out.creds = ResolvedCredentials(last)
                /\ Len(last.out.proofs) = 1
                /\ last.out.context = NewPresentation(<< >>).context

\* a Prove has appended a stored, a raw and a parsed credential, in that
\* order, to a presentation that held another credential
C36_Witness ==
    /\ last.op = "Prove"
    /\ ~Failed(last.err)
    /\ last.in.credentials.presentation = NewPresentation(<<OtherVC>>)
    /\ last.out.creds = <<OtherVC, SignedVC, TamperedVC, SampleVC>>
    /\ Len(last.out.proofs) = 1


(***************************************************************************)
(* Claims about the message events under concurrent registration.          *)
(***************************************************************************)
\* the channels of a list
ChannelsOf(events) == {events[i] : i \in 1..Len(events)}

\* the goroutine g ends a sendMsgEvents in the step: it took the snapshot
\* of an empty list, or it made the last send of its loop
EndsSending(g, before, after) ==
    /\ before.procs[g].pc \in {"snapshot", "send"}
    /\ after.procs[g].pc # "send"
    /\ Moves(g, before, after)

\* the list the goroutine g took or takes its snapshot of
SnapshotOf(g, before) ==
    IF before.procs[g].pc = "send" THEN before.procs[g].snap ELSE before.msgEvents

\* the channels the sendMsgEvents that ends in the step sent its event to
SentTo(g, before, after, call) == AddedBy(g, before, after, call)[1].to

\* C40: a sendMsgEvents that ends has sent its event exactly once to every
\* channel that was registered when it took its snapshot, in the order of
\* the list, whatever RegisterMsgEvent and UnregisterMsgEvent did
\* meanwhile: no channel got the event twice, and no channel of the
\* snapshot that is still registered was left out.
C40_EventOncePerChannel ==
    [][\A g \in Goroutines :
          EndsSending(g, service, service') =>
             /\ SentTo(g, service, service', last') = SnapshotOf(g, service)
             /\ \A i, j \in DOMAIN SentTo(g, service, service', last') :
                   SentTo(g, service, service', last')[i]
                       = SentTo(g, service, service', last')[j] => i = j
             /\ \A ch \in ChannelsOf(SnapshotOf(g, service)) :
                   Registered(ch) =>
                       ch \in ChannelsOf(SentTo(g, service, service', last'))]_vars

=============================================================================
